---- MODULE Spec2Model ----
(***************************************************************************)
(* A model of tmc: the Turing-machine data model (ir.cpp), the simulator   *)
(* (simulator.cpp) and the high-level lowering (hlcompiler.cpp).           *)
(*                                                                         *)
(* Symbols are one-character strings, states are strings (the compiler's   *)
(* fresh names are hint \o counter, as NewState builds them), a tape is a  *)
(* sequence whose element i+1 is cell i, and a transition table is a       *)
(* function from states to functions from read symbols to transitions.     *)
(***************************************************************************)
EXTENDS Integers, Sequences, FiniteSets, TLC

VARIABLES
  tm_,        \* Simulator::tm_, a reference: the handle of the machine simulated
  max_steps_, \* Simulator::max_steps_
  tape_,      \* Simulator::tape_
  head_,      \* Simulator::head_
  state_,     \* Simulator::state_
  steps_,     \* Simulator::steps_
  halted_,    \* Simulator::halted_
  pc,         \* "idle", or "Run" while Simulator::Run is inside its loop
  input,      \* the argument of the latest Reset / Run
  op,         \* the latest call made on the simulator
  ret,        \* what the latest call returned
  applied,    \* history: table transitions applied since the latest Reset
  reused,     \* history: the latest Reset was made on a simulator already used
  compiler,   \* an HLCompiler instance: its members after the latest Compile
  source,     \* the name of the program handed to the latest Compile
  machine,    \* a TM object a caller builds: its members
  call,       \* the latest call made on machine, with what it returned
  adds        \* the number of AddTransition calls made on machine

vars == <<tm_, max_steps_, tape_, head_, state_, steps_, halted_,
          pc, input, op, ret, applied, reused, compiler, source,
          machine, call, adds>>

\* The TM object and the calls made on it.
object == <<machine, call, adds>>

-----------------------------------------------------------------------------
(* ir.hpp: symbols, directions *)

kBlank == "_"
kWildcard == "?"

DirL == "L"
DirR == "R"
DirS == "S"
Dirs == {DirL, DirR, DirS}

\* The order of std::set<Symbol>: chars compare by their ASCII code.
AsciiOrder ==
  <<"#", "0", "1", ">", "?", "A", "B", "I", "X", "Y", "_", "a", "b">>

\* The end() of a transition map: no entry.
NoTrans == [read |-> "", write |-> "", dir |-> "", next |-> ""]
\* A call that returns nothing.
NoValue == [kind |-> "void"]

-----------------------------------------------------------------------------
(* ir.cpp: the machine *)

EmptyTM ==
  [states |-> {}, input_alphabet |-> {}, tape_alphabet |-> {},
   start |-> "", accept |-> "", reject |-> "", delta |-> <<>>]

\* An insertion that keeps the entry a pair already has.
SetEntryKeepingFirst(delta, from, read, t) ==
  IF from \in DOMAIN delta
    THEN [delta EXCEPT ![from] = @ @@ (read :> t)]
    ELSE (from :> (read :> t)) @@ delta

SetEntry(delta, from, read, t) ==
  IF from \in DOMAIN delta
    THEN [delta EXCEPT ![from] = (read :> t) @@ @]
    ELSE (from :> (read :> t)) @@ delta

AddTransition(tm, from, read, write, dir, to) ==
  [tm EXCEPT
     !.states = @ \cup {from, to},
     !.tape_alphabet = @ \cup {read, write},
     !.delta = SetEntry(@, from, read,
                        [read |-> read, write |-> write, dir |-> dir, next |-> to])]

\* A Finalize that registers no state.
FinalizeAlphabetOnly(tm) ==
  [tm EXCEPT !.tape_alphabet = (@ \cup {kBlank}) \cup tm.input_alphabet]

\* A Finalize that rebuilds the tape alphabet from the input alphabet.
FinalizeResettingAlphabet(tm) ==
  [tm EXCEPT
     !.tape_alphabet = {kBlank} \cup tm.input_alphabet,
     !.states = @ \cup {tm.start, tm.accept, tm.reject}]

Finalize(tm) ==
  [tm EXCEPT
     !.tape_alphabet = (@ \cup {kBlank}) \cup tm.input_alphabet,
     !.states = @ \cup {tm.start, tm.accept, tm.reject}]

\* The order in which std::map<State, TransitionMap> is walked: state names
\* compare as strings.
StateOrder == <<"q0", "q1", "q2", "qA", "qR">>

\* Validate, lines 48-63: the message for the entry (state, sym) of delta,
\* "" when the entry passes the three tests.
EntryError(tm, state, sym) ==
  IF state \notin tm.states THEN "Delta references unknown state: " \o state
  ELSE IF sym \notin DOMAIN tm.delta[state] THEN ""
  ELSE IF sym \notin tm.tape_alphabet /\ sym # kWildcard
    THEN "Delta references unknown symbol: " \o sym
  ELSE IF tm.delta[state][sym].next \notin tm.states
    THEN "Transition targets unknown state: " \o tm.delta[state][sym].next
  ELSE ""

\* The walk of delta from the i-th state and the j-th symbol on: the message
\* of the first entry that fails.
RECURSIVE DeltaError(_, _, _)
DeltaError(tm, i, j) ==
  IF i > Len(StateOrder) THEN ""
  ELSE IF StateOrder[i] \notin DOMAIN tm.delta \/ j > Len(AsciiOrder)
    THEN DeltaError(tm, i + 1, 1)
  ELSE IF EntryError(tm, StateOrder[i], AsciiOrder[j]) # ""
    THEN EntryError(tm, StateOrder[i], AsciiOrder[j])
  ELSE DeltaError(tm, i, j + 1)

\* TM::Validate: the message it sets, "" when it sets none.
ValidateError(tm) ==
  IF tm.start \notin tm.states THEN "Start state not in states set"
  ELSE IF tm.accept \notin tm.states THEN "Accept state not in states set"
  ELSE IF tm.reject \notin tm.states THEN "Reject state not in states set"
  ELSE DeltaError(tm, 1, 1)

\* Validate, lines 48-63, returns false for no entry of delta.
EntriesPass(tm) ==
  \A state \in DOMAIN tm.delta :
    /\ state \in tm.states
    /\ \A sym \in DOMAIN tm.delta[state] :
         /\ sym \in tm.tape_alphabet \/ sym = kWildcard
         /\ tm.delta[state][sym].next \in tm.states

\* TM::Validate: what it returns and what it leaves in *error (the message
\* is that of the walk in StateOrder).
Validate(tm) ==
  [kind |-> "bool",
   value |-> /\ {tm.start, tm.accept, tm.reject} \subseteq tm.states
             /\ EntriesPass(tm),
   error |-> ValidateError(tm)]

-----------------------------------------------------------------------------
(* optimizer.cpp: the passes of Optimize on a machine *)

\* EliminateDeadStates, lines 151-168: the states the search from start
\* reaches, `seen` being those found so far.
RECURSIVE ReachableFrom(_, _)
ReachableFrom(tm, seen) ==
  LET found == seen \cup UNION {{tm.delta[q][sym].next : sym \in DOMAIN tm.delta[q]} :
                                  q \in seen \cap DOMAIN tm.delta}
  IN IF found = seen THEN seen ELSE ReachableFrom(tm, found)

\* The table without the entries of the states in `gone`.
EraseStates(delta, gone) == [q \in DOMAIN delta \ gone |-> delta[q]]

EliminateDeadStates(tm) ==
  LET reachable == ReachableFrom(tm, {tm.start}) \cup {tm.accept, tm.reject}
      to_remove == tm.states \ reachable
  IN [tm EXCEPT !.states = @ \ to_remove, !.delta = EraseStates(@, to_remove)]

\* A comparison of the symbols the two tables read, not of the tables.
MergeableBySymbols(tm, i, j) ==
  LET s1 == StateOrder[i]
      s2 == StateOrder[j]
  IN /\ i < j
     /\ {s1, s2} \subseteq tm.states \ {tm.accept, tm.reject, tm.start}
     /\ {s1, s2} \subseteq DOMAIN tm.delta
     /\ DOMAIN tm.delta[s1] = DOMAIN tm.delta[s2]

\* MergeEquivalentStates, lines 110-121: the i-th and the j-th state of the
\* walk in StateOrder are a pair the loops merge.
Mergeable(tm, i, j) ==
  LET s1 == StateOrder[i]
      s2 == StateOrder[j]
  IN /\ i < j
     /\ {s1, s2} \subseteq tm.states \ {tm.accept, tm.reject, tm.start}
     /\ {s1, s2} \subseteq DOMAIN tm.delta
     /\ tm.delta[s1] = tm.delta[s2]

\* MergeEquivalentStates, lines 123-135: every reference to `gone` becomes
\* one to `kept`, then the entries and the state of `gone` are erased.
MergeInto(tm, kept, gone) ==
  LET redirected ==
        [q \in DOMAIN tm.delta |->
           [sym \in DOMAIN tm.delta[q] |->
              IF tm.delta[q][sym].next = gone
                THEN [tm.delta[q][sym] EXCEPT !.next = kept]
                ELSE tm.delta[q][sym]]]
  IN [tm EXCEPT !.delta = EraseStates(redirected, {gone}), !.states = @ \ {gone}]

\* MergeEquivalentStates: the first pair of the two nested loops is merged,
\* and the walk starts again, until no pair is left.
RECURSIVE MergeEquivalentStates(_)
MergeEquivalentStates(tm) ==
  LET pairs == {p \in (DOMAIN StateOrder) \X (DOMAIN StateOrder) : Mergeable(tm, p[1], p[2])}
  IN IF pairs = {} THEN tm
     ELSE LET first == CHOOSE p \in pairs :
                         \A r \in pairs : p[1] < r[1] \/ (p[1] = r[1] /\ p[2] <= r[2])
          IN MergeEquivalentStates(MergeInto(tm, StateOrder[first[1]], StateOrder[first[2]]))

\* Optimize with the default OptConfig: both passes, then Finalize.
Optimize(tm) == Finalize(MergeEquivalentStates(EliminateDeadStates(tm)))

\* A Reset that leaves halted_ as it finds it.
ResetCfgKeepingHalted(tm, w) ==
  [tape |-> IF w = <<>> THEN <<kBlank>> ELSE w,
   head |-> 0, state |-> tm.start, steps |-> 0, halted |-> halted_]

\* Simulator::Reset: the configuration it establishes for input w.
ResetCfg(tm, w) ==
  [tape |-> IF w = <<>> THEN <<kBlank>> ELSE w,
   head |-> 0, state |-> tm.start, steps |-> 0, halted |-> FALSE]

\* Step, lines 60-62: the symbol Step reads.
Current(c) ==
  IF c.head >= 0 /\ c.head < Len(c.tape) THEN c.tape[c.head + 1] ELSE kBlank

\* Step, lines 65-87: the table entry for (state, current), exact match
\* first, then the wildcard; NoTrans when there is neither.
Lookup(tm, state, current) ==
  IF state \notin DOMAIN tm.delta THEN NoTrans
  ELSE LET trans_map == tm.delta[state]
       IN IF current \in DOMAIN trans_map THEN trans_map[current]
          ELSE IF kWildcard \in DOMAIN trans_map THEN trans_map[kWildcard]
          ELSE NoTrans

\* The entry Step selects in configuration c.
FindTransition(tm, c) == Lookup(tm, c.state, Current(c))

Blanks(n) == [i \in 1..n |-> kBlank]

\* Step, lines 91-98: clamp the head, extend the tape to the right.
ClampHead(h) == IF h < 0 THEN 0 ELSE h

ExtendTape(tape, h) ==
  IF h >= Len(tape) THEN tape \o Blanks(h - Len(tape) + 1) ELSE tape

MoveHead(h, dir) ==
  IF dir = DirL THEN h - 1 ELSE IF dir = DirR THEN h + 1 ELSE h

\* Step, lines 100-124: execute the transition trans.
ApplyTransition(tm, c, trans) ==
  LET current == Current(c)
      h == ClampHead(c.head)
      tape1 == ExtendTape(c.tape, h)
      write_sym == IF trans.write = kWildcard THEN current ELSE trans.write
  IN [tape |-> [tape1 EXCEPT ![h + 1] = write_sym],
      head |-> MoveHead(h, trans.dir),
      state |-> trans.next,
      steps |-> c.steps + 1,
      halted |-> trans.next = tm.accept \/ trans.next = tm.reject]

\* An implicit reject that counts as a step.
ImplicitRejectCounting(tm, c) ==
  [c EXCEPT !.state = tm.reject, !.halted = TRUE, !.steps = @ + 1]

\* Step, lines 64-87: no entry, the implicit reject.
ImplicitReject(tm, c) == [c EXCEPT !.state = tm.reject, !.halted = TRUE]

\* Simulator::Step on configuration c.
\* A Step without the tests of lines 51-57.
StepCfgWithoutHaltChecks(tm, c) ==
  LET trans == FindTransition(tm, c)
  IN IF trans = NoTrans THEN ImplicitReject(tm, c)
     ELSE ApplyTransition(tm, c, trans)

StepCfg(tm, c) ==
  IF c.halted THEN c
  ELSE IF c.state = tm.accept \/ c.state = tm.reject
    THEN [c EXCEPT !.halted = TRUE]
  ELSE LET trans == FindTransition(tm, c)
       IN IF trans = NoTrans THEN ImplicitReject(tm, c)
          ELSE ApplyTransition(tm, c, trans)

\* Whether Step applies a table transition in c.
Applies(tm, c) ==
  /\ ~c.halted
  /\ c.state # tm.accept /\ c.state # tm.reject
  /\ FindTransition(tm, c) # NoTrans

\* Simulator::Step's return value.
StepReturn(tm, c) ==
  [kind |-> "bool",
   value |-> IF Applies(tm, c) THEN ~StepCfg(tm, c).halted ELSE FALSE]

\* Simulator::Accepted
AcceptedCfg(tm, c) == c.halted /\ c.state = tm.accept

\* Run, lines 21-27: the tape without its leading and trailing blanks.
\* `while (left < size && tape_[left] == kBlank) ++left`
TrimLeft(t) ==
  IF \A i \in DOMAIN t : t[i] = kBlank THEN <<>>
  ELSE LET left == CHOOSE i \in DOMAIN t :
                     t[i] # kBlank /\ \A j \in 1..(i - 1) : t[j] = kBlank
       IN SubSeq(t, left, Len(t))

\* `while (right >= 0 && tape_[right] == kBlank) --right`
TrimRight(t) ==
  IF \A i \in DOMAIN t : t[i] = kBlank THEN <<>>
  ELSE LET right == CHOOSE i \in DOMAIN t :
                      t[i] # kBlank /\ \A j \in (i + 1)..Len(t) : t[j] = kBlank
       IN SubSeq(t, 1, right)

FinalTape(tape) == TrimRight(TrimLeft(tape))

\* Run, lines 16-29: the RunResult built from the configuration the loop left.
RunResultOf(tm, c, max_steps) ==
  [kind |-> "RunResult",
   accepted |-> AcceptedCfg(tm, c),
   steps |-> c.steps,
   hit_limit |-> (c.steps >= max_steps /\ ~c.halted),
   final_tape |-> FinalTape(c.tape)]

-----------------------------------------------------------------------------
(* hlcompiler.cpp: the HLCompiler instance and its emit loops *)

kSep == "#"
kOne == "1"
kMarked == "I"
kLeftEnd == ">"

Symbols == {AsciiOrder[i] : i \in DOMAIN AsciiOrder}

\* The entry a loop body adds for a symbol; NoSlot where it adds nothing.
NoSlot == [write |-> "", dir |-> "", next |-> ""]
T(write, dir, next) == [write |-> write, dir |-> dir, next |-> next]

\* `for (Symbol s : tm_.tape_alphabet) tm_.AddTransition(from, s, ...)`:
\* the set is walked in ASCII order and a symbol the body inserts ahead of
\* the walk is visited too.  rule[s] is the entry the body adds for s.
RECURSIVE AddLoopFrom(_, _, _, _)
AddLoopFrom(tm, from, rule, i) ==
  IF i > Len(AsciiOrder) THEN tm
  ELSE LET s == AsciiOrder[i]
       IN IF s \in tm.tape_alphabet /\ rule[s] # NoSlot
            THEN AddLoopFrom(AddTransition(tm, from, s, rule[s].write,
                                           rule[s].dir, rule[s].next),
                             from, rule, i + 1)
            ELSE AddLoopFrom(tm, from, rule, i + 1)

AddLoop(tm, from, rule) == AddLoopFrom(tm, from, rule, 1)

\* `tm_.delta[state]`: operator[] of std::map creates the (empty) entry.
TouchDelta(tm, state) ==
  IF state \in DOMAIN tm.delta THEN tm
  ELSE [tm EXCEPT !.delta = (state :> <<>>) @@ @]

\* `for (s : tape_alphabet) if (delta[from].find(s) == end) AddTransition(from, s, s, Dir::S, to)`
RECURSIVE AddMissingFrom(_, _, _, _)
AddMissingFrom(tm, from, to, i) ==
  IF i > Len(AsciiOrder) THEN tm
  ELSE LET s == AsciiOrder[i]
       IN IF s \in tm.tape_alphabet
            THEN LET t == TouchDelta(tm, from)
                 IN IF s \notin DOMAIN t.delta[from]
                      THEN AddMissingFrom(AddTransition(t, from, s, s, DirS, to),
                                          from, to, i + 1)
                      ELSE AddMissingFrom(t, from, to, i + 1)
            ELSE AddMissingFrom(tm, from, to, i + 1)

AddMissing(tm, from, to) == AddMissingFrom(tm, from, to, 1)

\* One statement of an emitter that adds to the table: a loop over the tape
\* alphabet, or a single AddTransition.
Loop(from, rule) == [kind |-> "loop", from |-> from, rule |-> rule]

One(from, read, write, dir, to) ==
  [kind |-> "one", from |-> from, read |-> read, write |-> write, dir |-> dir,
   to |-> to]

EmitStep(tm, st) ==
  IF st.kind = "loop" THEN AddLoop(tm, st.from, st.rule)
  ELSE AddTransition(tm, st.from, st.read, st.write, st.dir, st.to)

\* The statements of an emitter take effect in source order.
RECURSIVE EmitFrom(_, _, _)
EmitFrom(tm, steps, i) ==
  IF i > Len(steps) THEN tm
  ELSE EmitFrom(EmitStep(tm, steps[i]), steps, i + 1)

Emit(tm, steps) == EmitFrom(tm, steps, 1)

\* `State x = EmitA(...); ... rest`: the rest of an emitter sees the instance
\* the call left and the state it returned; an exception thrown by the call
\* leaves the emitter.
Then(r, Rest(_)) == IF r.hc.thrown # "" THEN r ELSE Rest(r)

\* Common loop bodies.
StayTo(to) == [s \in Symbols |-> T(s, DirS, to)]
MoveTo(dir, to) == [s \in Symbols |-> T(s, dir, to)]
\* scan left for >, then step right into `to`
BackTo(self, to) ==
  [s \in Symbols |-> IF s = kLeftEnd THEN T(s, DirR, to) ELSE T(s, DirL, self)]

\* A fresh HLCompiler (hlcompiler.hpp: the member initialisers).
NewHLCompiler ==
  [tm |-> EmptyTM, vars |-> <<>>, next_var_index |-> 0, state_counter |-> 0,
   break_targets |-> <<>>, thrown |-> ""]

\* NewState(hint) with the counter at n.
StateName(hint, n) == hint \o ToString(n)

Bump(hc, n) == [hc EXCEPT !.state_counter = @ + n]
WithTM(hc, tm) == [hc EXCEPT !.tm = tm]
Throw(hc, what) == [hc EXCEPT !.thrown = what]
Result(hc, exit) == [hc |-> hc, exit |-> exit]

DeclareVar(hc, name) ==
  IF name \in DOMAIN hc.vars THEN hc
  ELSE [hc EXCEPT !.vars = (name :> hc.next_var_index) @@ @,
                  !.next_var_index = @ + 1]

\* GetVar auto-declares; VarIndex is read from the instance GetVar leaves.
GetVar(hc, name) == DeclareVar(hc, name)
VarIndex(hc, name) == hc.vars[name]

IsLower(s) == s \in {"a", "b"}
ToUpper(s) == IF s = "a" THEN "A" ELSE IF s = "b" THEN "B" ELSE s
\* `(sym >= 'a' && sym <= 'z') ? sym - 'a' + 'A' : sym`
MarkOf(sym) == IF IsLower(sym) THEN ToUpper(sym) ELSE sym

SetupAlphabet(hc, program) ==
  WithTM(hc, [hc.tm EXCEPT
    !.input_alphabet = program.input_alphabet,
    !.tape_alphabet =
       program.input_alphabet
         \cup {kBlank, kSep, kOne, kMarked, kLeftEnd}
         \cup {ToUpper(s) : s \in {x \in program.input_alphabet : IsLower(x)}}
         \cup program.markers])

\* A preamble that leaves the head where the last symbol was put down.
EmitPreambleWithoutRewind(hc, start) ==
  LET n == hc.state_counter
      at_input == StateName("pre_done", n)
      carried == {s \in hc.tm.tape_alphabet : s # kBlank /\ s # kLeftEnd}
      \* carry_states[s]: the k-th carried symbol in ASCII order gets counter n + k
      rank(s) == Cardinality({i \in DOMAIN AsciiOrder :
                    AsciiOrder[i] \in carried /\
                    \E j \in DOMAIN AsciiOrder : j >= i /\ AsciiOrder[j] = s})
      carry_states == [s \in carried |-> StateName("pre_c", n + rank(s))]
      done_rewind == StateName("pre_rw", n + 1 + Cardinality(carried))
      from_start == [s \in Symbols |->
                       IF s = kBlank THEN T(kLeftEnd, DirR, at_input)
                       ELSE IF s \in carried THEN T(kLeftEnd, DirR, carry_states[s])
                       ELSE NoSlot]
      carry_rule(c) == [s \in Symbols |->
                          IF s = kBlank THEN T(c, DirS, at_input)
                          ELSE IF s \in carried THEN T(c, DirR, carry_states[s])
                          ELSE NoSlot]
      in_order == SelectSeq(AsciiOrder, LAMBDA s : s \in carried)
      carries == [k \in 1..Len(in_order) |->
                    Loop(carry_states[in_order[k]], carry_rule(in_order[k]))]
  IN Result(WithTM(Bump(hc, 2 + Cardinality(carried)),
                   Emit(hc.tm, <<Loop(start, from_start)>> \o carries \o
                                <<Loop(done_rewind, BackTo(done_rewind, at_input))>>)),
            at_input)

EmitPreamble(hc, start) ==
  LET n == hc.state_counter
      at_input == StateName("pre_done", n)
      carried == {s \in hc.tm.tape_alphabet : s # kBlank /\ s # kLeftEnd}
      \* carry_states[s]: the k-th carried symbol in ASCII order gets counter n + k
      rank(s) == Cardinality({i \in DOMAIN AsciiOrder :
                    AsciiOrder[i] \in carried /\
                    \E j \in DOMAIN AsciiOrder : j >= i /\ AsciiOrder[j] = s})
      carry_states == [s \in carried |-> StateName("pre_c", n + rank(s))]
      done_rewind == StateName("pre_rw", n + 1 + Cardinality(carried))
      from_start == [s \in Symbols |->
                       IF s = kBlank THEN T(kLeftEnd, DirR, at_input)
                       ELSE IF s \in carried THEN T(kLeftEnd, DirR, carry_states[s])
                       ELSE NoSlot]
      carry_rule(c) == [s \in Symbols |->
                          IF s = kBlank THEN T(c, DirL, done_rewind)
                          ELSE IF s \in carried THEN T(c, DirR, carry_states[s])
                          ELSE NoSlot]
      in_order == SelectSeq(AsciiOrder, LAMBDA s : s \in carried)
      carries == [k \in 1..Len(in_order) |->
                    Loop(carry_states[in_order[k]], carry_rule(in_order[k]))]
  IN Result(WithTM(Bump(hc, 2 + Cardinality(carried)),
                   Emit(hc.tm, <<Loop(start, from_start)>> \o carries \o
                                <<Loop(done_rewind, BackTo(done_rewind, at_input))>>)),
            at_input)

\* A rewind that stops on the sentinel instead of stepping onto cell 1.
EmitRewindStoppingOnSentinel(hc, entry) ==
  LET rewind == StateName("rewind", hc.state_counter)
      at_start == StateName("at_start", hc.state_counter + 1)
      rule == [s \in Symbols |->
                 IF s = kLeftEnd THEN T(s, DirS, at_start) ELSE T(s, DirL, rewind)]
  IN Result(WithTM(Bump(hc, 2),
                   Emit(hc.tm, <<Loop(entry, MoveTo(DirL, rewind)),
                                 Loop(rewind, rule)>>)),
            at_start)

EmitRewindToStart(hc, entry) ==
  LET rewind == StateName("rewind", hc.state_counter)
      at_start == StateName("at_start", hc.state_counter + 1)
  IN Result(WithTM(Bump(hc, 2),
                   Emit(hc.tm, <<Loop(entry, MoveTo(DirL, rewind)),
                                 Loop(rewind, BackTo(rewind, at_start))>>)),
            at_start)

\* EmitCopyRegion, lines 717-728: the chain that skips src_region + 1 separators.
RECURSIVE CopyNav(_, _, _, _)
CopyNav(hc, current, i, src_region) ==
  IF i > src_region THEN Result(hc, current)
  ELSE LET next == StateName("cpy_nav", hc.state_counter)
           rule == [s \in Symbols |->
                      IF s = kSep THEN T(s, DirR, next) ELSE T(s, DirR, current)]
       IN CopyNav(WithTM(Bump(hc, 1), AddLoop(hc.tm, current, rule)), next, i + 1,
                  src_region)

EmitCopyRegion(hc, entry, src_region, dest_region) ==
  LET n == hc.state_counter
      find_src == StateName("cpy_src", n)
      find_dest == StateName("cpy_dest", n + 1)
      back == StateName("cpy_back", n + 2)
      done == StateName("cpy_done", n + 3)
  IN Then(CopyNav(Bump(hc, 4), entry, 0, src_region), LAMBDA nav :
       LET current == nav.exit
           in_src == [s \in Symbols |->
                        IF s = kOne THEN T(kMarked, DirR, find_dest)
                        ELSE IF s = kMarked THEN T(s, DirR, current)
                        ELSE IF s = kSep \/ s = kBlank THEN T(s, DirS, done)
                        ELSE T(s, DirR, current)]
           to_dest == [s \in Symbols |->
                         IF s = kBlank THEN T(kOne, DirL, back)
                         ELSE T(s, DirR, find_dest)]
       IN Result(WithTM(nav.hc,
                        Emit(nav.hc.tm, <<Loop(current, in_src),
                                          Loop(find_dest, to_dest),
                                          Loop(back, BackTo(back, entry))>>)),
                 done))

\* A restore sweep that leaves the marks where they are.
RestoreSweepKeepingMarks(sym, marked, restore_scan, restore_done) ==
  [s \in Symbols |->
     IF s = kSep \/ s = kBlank THEN T(s, DirS, restore_done)
     ELSE T(s, DirR, restore_scan)]

\* CompileCount, lines 688-697: sweep right, restore marked symbols, stop at
\* # or blank.
RestoreSweep(sym, marked, restore_scan, restore_done) ==
  [s \in Symbols |->
     IF s = marked THEN T(sym, DirR, restore_scan)
     ELSE IF s = kSep \/ s = kBlank THEN T(s, DirS, restore_done)
     ELSE T(s, DirR, restore_scan)]

CompileCount(hc, expr, dest_var, entry) ==
  LET sym == expr.symbol
      marked == MarkOf(sym)
      n == hc.state_counter
      scan == StateName("cnt_scan", n)
      write == StateName("cnt_write", n + 1)
      back == StateName("cnt_back", n + 2)
      done == StateName("cnt_done", n + 3)
      restore_rewind == StateName("cnt_rrewind", n + 4)
      restore_scan == StateName("cnt_restore", n + 5)
      restore_done == StateName("cnt_rdone", n + 6)
      scan_rule == [s \in Symbols |->
                      IF s = sym THEN T(marked, DirR, write)
                      ELSE IF s = kSep \/ s = kBlank THEN T(s, DirS, done)
                      ELSE T(s, DirR, scan)]
      write_rule == [s \in Symbols |->
                       IF s = kBlank THEN T(kOne, DirL, back)
                       ELSE T(s, DirR, write)]
      restore_rule == RestoreSweep(sym, marked, restore_scan, restore_done)
  IN Result(WithTM(Bump(hc, 7),
                   Emit(hc.tm, <<Loop(scan, scan_rule),
                                 Loop(write, write_rule),
                                 Loop(back, BackTo(back, scan)),
                                 Loop(entry, StayTo(scan)),
                                 Loop(done, MoveTo(DirL, restore_rewind)),
                                 Loop(restore_rewind,
                                      BackTo(restore_rewind, restore_scan)),
                                 Loop(restore_scan, restore_rule)>>)),
            restore_done)

\* CompileExpr, lines 607-619: write lit->value many 1s.
RECURSIVE EmitLiteral(_, _, _, _)
EmitLiteral(hc, current, i, value) ==
  IF i >= value THEN Result(hc, current)
  ELSE LET next == StateName("lit", hc.state_counter)
           rule == [s \in Symbols |->
                      IF s # kBlank THEN T(s, DirR, current) ELSE NoSlot]
       IN EmitLiteral(WithTM(Bump(hc, 1),
                             Emit(hc.tm, <<One(current, kBlank, kOne, DirR, next),
                                           Loop(current, rule)>>)),
                      next, i + 1, value)

CompileExpr(hc, expr, dest_var, entry) ==
  IF expr.kind = "Count" THEN CompileCount(hc, expr, dest_var, entry)
  ELSE IF expr.kind = "IntLit" THEN
    (IF expr.value = 0 THEN Result(hc, entry)
     ELSE EmitLiteral(hc, entry, 0, expr.value))
  ELSE IF expr.kind = "Var" THEN
    LET hc1 == GetVar(GetVar(hc, expr.name), dest_var)
    IN EmitCopyRegion(hc1, entry, VarIndex(hc1, expr.name), VarIndex(hc1, dest_var))
  ELSE Result(Throw(hc, "Unknown expression type"), entry)

CompileLet(hc, stmt, entry) ==
  LET hc0 == DeclareVar(hc, stmt.name)
      n == hc0.state_counter
      scan_end == StateName("let_scan", n)
      add_sep == StateName("let_sep", n + 1)
      go_back == StateName("let_back", n + 2)
      scan_rule == [s \in Symbols |->
                      IF s = kBlank THEN T(kSep, DirL, go_back)
                      ELSE T(s, DirR, scan_end)]
  IN Then(CompileExpr(WithTM(Bump(hc0, 3),
                             Emit(hc0.tm, <<Loop(scan_end, scan_rule),
                                            Loop(go_back, BackTo(go_back, add_sep)),
                                            Loop(entry, StayTo(scan_end))>>)),
                      stmt.init, stmt.name, add_sep),
          LAMBDA expr_done : EmitRewindToStart(expr_done.hc, expr_done.exit))

\* The chain that skips region + 1 separators and stops at a blank
\* (emitNavToRegion lines 1032-1045; the same loop with its own state hint in
\* EmitInsertInRegion 881-897, EmitRestoreRegion 981-995 and
\* EmitAppendNonDestructive 1157-1170).
RECURSIVE NavChain(_, _, _, _, _)
NavChain(hc, cur, hint, i, region) ==
  IF i > region THEN Result(hc, cur)
  ELSE LET next == StateName(hint, hc.state_counter)
           rule == [s \in Symbols |->
                      IF s = kSep THEN T(s, DirR, next)
                      ELSE IF s = kBlank THEN T(s, DirS, next)
                      ELSE T(s, DirR, cur)]
       IN NavChain(WithTM(Bump(hc, 1), AddLoop(hc.tm, cur, rule)),
                   next, hint, i + 1, region)

EmitInsertInRegion(hc, entry, region) ==
  LET nav == StateName("ins_nav", hc.state_counter)
  IN Then(NavChain(WithTM(Bump(hc, 1), AddLoop(hc.tm, entry, MoveTo(DirR, nav))),
                   nav, "ins_sep", 0, region),
          LAMBDA chain :
    LET current == chain.exit
        n == chain.hc.state_counter
        scan_data == StateName("ins_data", n)
        at_end == StateName("ins_at_end", n + 1)
        done == StateName("ins_done", n + 2)
        carry_sep == StateName("carry_sep", n + 3)
        carry_one == StateName("carry_one", n + 4)
        carry_mark == StateName("carry_mark", n + 5)
        data_rule == [s \in Symbols |->
                        IF s = kOne \/ s = kMarked THEN T(s, DirR, scan_data)
                        ELSE T(s, DirS, at_end)]
        \* the "be safe" loops: any other symbol is carried on as data
        other(c) == [s \in Symbols |->
                       IF s # kBlank /\ s # kSep /\ s # kOne /\ s # kMarked
                         THEN T(c, DirR, carry_one) ELSE NoSlot]
    IN EmitRewindToStart(
         WithTM(Bump(chain.hc, 6),
                Emit(chain.hc.tm,
                     <<Loop(current, StayTo(scan_data)),
                       Loop(scan_data, data_rule),
                       One(at_end, kBlank, kOne, DirS, done),
                       One(at_end, kSep, kOne, DirR, carry_sep),
                       One(carry_sep, kBlank, kSep, DirS, done),
                       One(carry_sep, kSep, kSep, DirR, carry_sep),
                       One(carry_sep, kOne, kSep, DirR, carry_one),
                       One(carry_sep, kMarked, kSep, DirR, carry_mark),
                       Loop(carry_sep, other(kSep)),
                       One(carry_one, kBlank, kOne, DirS, done),
                       One(carry_one, kSep, kOne, DirR, carry_sep),
                       One(carry_one, kOne, kOne, DirR, carry_one),
                       One(carry_one, kMarked, kOne, DirR, carry_mark),
                       Loop(carry_one, other(kOne)),
                       One(carry_mark, kBlank, kMarked, DirS, done),
                       One(carry_mark, kSep, kMarked, DirR, carry_sep),
                       One(carry_mark, kOne, kMarked, DirR, carry_one),
                       One(carry_mark, kMarked, kMarked, DirR, carry_mark),
                       Loop(carry_mark, other(kMarked))>>)),
         done))

EmitRestoreRegion(hc, entry, region) ==
  Then(EmitRewindToStart(hc, entry), LAMBDA at_start :
    LET nav == StateName("rst_nav", at_start.hc.state_counter)
    IN Then(NavChain(WithTM(Bump(at_start.hc, 1),
                            AddLoop(at_start.hc.tm, at_start.exit, MoveTo(DirR, nav))),
                     nav, "rst_sep", 0, region),
            LAMBDA chain :
      LET current == chain.exit
          sweep == StateName("rst_sweep", chain.hc.state_counter)
          done == StateName("rst_done", chain.hc.state_counter + 1)
          sweep_rule == [s \in Symbols |->
                           IF s = kMarked THEN T(kOne, DirR, sweep)
                           ELSE IF s = kOne THEN T(s, DirR, sweep)
                           ELSE T(s, DirS, done)]
      IN EmitRewindToStart(WithTM(Bump(chain.hc, 2),
                                  Emit(chain.hc.tm, <<Loop(current, StayTo(sweep)),
                                                      Loop(sweep, sweep_rule)>>)),
                           done)))

\* EmitCompareEqual, lines 1027-1047: the lambda emitNavToRegion.
EmitNavToRegion(hc, start, region) ==
  LET nav == StateName("nav", hc.state_counter)
  IN NavChain(WithTM(Bump(hc, 1), AddLoop(hc.tm, start, MoveTo(DirR, nav))),
              nav, "navsep", 0, region)

EmitCompareEqual(hc, entry, reg_a, reg_b, if_eq, if_neq) ==
  LET n == hc.state_counter
      restore_eq == StateName("ceq_req", n)
      restore_neq == StateName("ceq_rneq", n + 1)
      a_done == StateName("ceq_adone", n + 2)
      a_rule(self, find_b) == [s \in Symbols |->
                                 IF s = kOne THEN T(kMarked, DirS, find_b)
                                 ELSE IF s = kMarked THEN T(s, DirR, self)
                                 ELSE T(s, DirS, a_done)]
  IN \* Phase 1
     Then(EmitNavToRegion(Bump(hc, 3), entry, reg_a), LAMBDA in_a :
     LET find_b == StateName("ceq_fb", in_a.hc.state_counter)
     IN \* Phase 2
     Then(EmitRewindToStart(
            WithTM(Bump(in_a.hc, 1),
                   AddLoop(in_a.hc.tm, in_a.exit, a_rule(in_a.exit, find_b))),
            find_b), LAMBDA rw_b :
     Then(EmitNavToRegion(rw_b.hc, rw_b.exit, reg_b), LAMBDA in_b :
     LET back_to_a == StateName("ceq_back", in_b.hc.state_counter)
         b_rule == [s \in Symbols |->
                      IF s = kOne THEN T(kMarked, DirS, back_to_a)
                      ELSE IF s = kMarked THEN T(s, DirR, in_b.exit)
                      ELSE T(s, DirS, restore_neq)]
     IN \* Phase 3
     Then(EmitRewindToStart(
            WithTM(Bump(in_b.hc, 1), AddLoop(in_b.hc.tm, in_b.exit, b_rule)),
            back_to_a), LAMBDA rw_a :
     Then(EmitNavToRegion(rw_a.hc, rw_a.exit, reg_a), LAMBDA in_a2 :
     \* Phase 4
     Then(EmitRewindToStart(
            WithTM(in_a2.hc,
                   AddLoop(in_a2.hc.tm, in_a2.exit, a_rule(in_a2.exit, find_b))),
            a_done), LAMBDA rw_chk :
     Then(EmitNavToRegion(rw_chk.hc, rw_chk.exit, reg_b), LAMBDA in_b_chk :
     LET chk_rule == [s \in Symbols |->
                        IF s = kOne THEN T(s, DirS, restore_neq)
                        ELSE IF s = kMarked THEN T(s, DirR, in_b_chk.exit)
                        ELSE T(s, DirS, restore_eq)]
     IN \* Restore both regions then branch
     Then(EmitRestoreRegion(
            WithTM(in_b_chk.hc, AddLoop(in_b_chk.hc.tm, in_b_chk.exit, chk_rule)),
            restore_eq, reg_a), LAMBDA after_ra_eq :
     Then(EmitRestoreRegion(after_ra_eq.hc, after_ra_eq.exit, reg_b),
          LAMBDA after_rb_eq :
     Then(EmitRestoreRegion(
            WithTM(after_rb_eq.hc,
                   AddMissing(after_rb_eq.hc.tm, after_rb_eq.exit, if_eq)),
            restore_neq, reg_a), LAMBDA after_ra_neq :
     Then(EmitRestoreRegion(after_ra_neq.hc, after_ra_neq.exit, reg_b),
          LAMBDA after_rb_neq :
       Result(WithTM(after_rb_neq.hc,
                     AddMissing(after_rb_neq.hc.tm, after_rb_neq.exit, if_neq)),
              if_eq))))))))))))

EmitAppendNonDestructive(hc, entry, src, dst) ==
  LET n == hc.state_counter
      loop_start == StateName("appnd_loop", n)
      find_src == StateName("appnd_find", n + 1)
      insert == StateName("appnd_ins", n + 2)
      src_done == StateName("appnd_done", n + 3)
  IN Then(NavChain(WithTM(Bump(hc, 4),
                          Emit(hc.tm, <<Loop(entry, StayTo(loop_start)),
                                        Loop(loop_start, MoveTo(DirR, find_src))>>)),
                   find_src, "appnd_nav", 0, src),
          LAMBDA chain :
     LET cur == chain.exit
         src_rule == [s \in Symbols |->
                        IF s = kOne THEN T(kMarked, DirS, insert)
                        ELSE IF s = kMarked THEN T(s, DirR, cur)
                        ELSE T(s, DirS, src_done)]
     IN
     Then(EmitRewindToStart(WithTM(chain.hc, AddLoop(chain.hc.tm, cur, src_rule)),
                            insert), LAMBDA pre_insert :
     Then(EmitInsertInRegion(pre_insert.hc, pre_insert.exit, dst),
          LAMBDA after_insert :
     Then(EmitRewindToStart(
            WithTM(after_insert.hc,
                   AddMissing(after_insert.hc.tm, after_insert.exit, loop_start)),
            src_done), LAMBDA pre_restore :
       EmitRestoreRegion(pre_restore.hc, pre_restore.exit, src)))))

CompileInc(hc, stmt, entry) ==
  LET hc1 == GetVar(hc, stmt.reg)
  IN EmitInsertInRegion(hc1, entry, VarIndex(hc1, stmt.reg))

\* An append that takes its operands the other way round.
CompileAppendSwapped(hc, stmt, entry) ==
  LET hc1 == GetVar(GetVar(hc, stmt.src), stmt.dst)
  IN EmitAppendNonDestructive(hc1, entry, VarIndex(hc1, stmt.dst),
                              VarIndex(hc1, stmt.src))

CompileAppend(hc, stmt, entry) ==
  LET hc1 == GetVar(GetVar(hc, stmt.src), stmt.dst)
  IN EmitAppendNonDestructive(hc1, entry, VarIndex(hc1, stmt.src),
                              VarIndex(hc1, stmt.dst))

CompileBreak(hc, stmt, entry) ==
  IF hc.break_targets = <<>>
    THEN Result(Throw(hc, "break outside of loop"), entry)
    ELSE LET target == hc.break_targets[Len(hc.break_targets)]
         IN Result(WithTM(hc, AddLoop(hc.tm, entry, StayTo(target))), target)

CompileRewind(hc, stmt, entry) ==
  LET scan == StateName("rw", hc.state_counter)
      done == StateName("rw_done", hc.state_counter + 1)
      stop == IF stmt.direction = DirL THEN kLeftEnd ELSE kBlank
      dir == IF stmt.direction = DirL THEN DirL ELSE DirR
      rule == [s \in Symbols |->
                 IF s = stop THEN T(s, DirS, done) ELSE T(s, dir, scan)]
  IN Result(WithTM(Bump(hc, 2),
                   Emit(hc.tm, <<Loop(scan, rule), Loop(entry, StayTo(scan))>>)),
            done)

\* A scan that stops on the cell it starts on, whatever it holds.
CompileScanStoppingAtOnce(hc, stmt, entry) ==
  LET scan == StateName("scan", hc.state_counter)
      done == StateName("scan_done", hc.state_counter + 1)
      rule == [s \in Symbols |-> T(s, DirS, done)]
  IN Result(WithTM(Bump(hc, 2),
                   Emit(hc.tm, <<Loop(entry, StayTo(scan)), Loop(scan, rule)>>)),
            done)

CompileScan(hc, stmt, entry) ==
  LET scan == StateName("scan", hc.state_counter)
      done == StateName("scan_done", hc.state_counter + 1)
      rule == [s \in Symbols |->
                 IF s \in stmt.stop_symbols THEN T(s, DirS, done)
                 ELSE T(s, stmt.direction, scan)]
  IN Result(WithTM(Bump(hc, 2),
                   Emit(hc.tm, <<Loop(entry, StayTo(scan)), Loop(scan, rule)>>)),
            done)

CompileWrite(hc, stmt, entry) ==
  LET done == StateName("write_done", hc.state_counter)
      rule == [s \in Symbols |-> T(stmt.symbol, DirS, done)]
  IN Result(WithTM(Bump(hc, 1), AddLoop(hc.tm, entry, rule)), done)

CompileMove(hc, stmt, entry) ==
  LET done == StateName("move_done", hc.state_counter)
  IN Result(WithTM(Bump(hc, 1), AddLoop(hc.tm, entry, MoveTo(stmt.direction, done))),
            done)

CompileAccept(hc, entry) ==
  Result(WithTM(hc, AddLoop(hc.tm, entry, StayTo(hc.tm.accept))), hc.tm.accept)

CompileReject(hc, entry) ==
  Result(WithTM(hc, AddLoop(hc.tm, entry, StayTo(hc.tm.reject))), hc.tm.reject)

EmitIncrementRegion(hc, entry, region) ==
  LET done == StateName("inc_done", hc.state_counter)
      rule == [s \in Symbols |->
                 IF s = kBlank THEN T(kOne, DirL, done) ELSE T(s, DirR, entry)]
  IN Result(WithTM(Bump(hc, 1), AddLoop(hc.tm, entry, rule)), done)

\* EmitCompareRegionToRegion, lines 793-804: skip region_a + 1 separators.
RECURSIVE CmpNav(_, _, _, _)
CmpNav(hc, to_a, i, region_a) ==
  IF i > region_a THEN Result(hc, to_a)
  ELSE LET next == StateName("cmp_nav", hc.state_counter)
           rule == [s \in Symbols |->
                      IF s = kSep THEN T(s, DirR, next) ELSE T(s, DirR, to_a)]
       IN CmpNav(WithTM(Bump(hc, 1), AddLoop(hc.tm, to_a, rule)), next, i + 1, region_a)

EmitCompareRegionToRegion(hc, entry, region_a, region_b, if_le, if_gt) ==
  LET n == hc.state_counter
      find_b == StateName("cmp_b", n + 1)
      back == StateName("cmp_back", n + 2)
  IN Then(CmpNav(Bump(hc, 4), entry, 0, region_a), LAMBDA nav :
       LET to_a == nav.exit
           a_rule == [s \in Symbols |->
                        IF s = kOne THEN T(kMarked, DirR, find_b)
                        ELSE IF s = kMarked THEN T(s, DirR, to_a)
                        ELSE IF s = kSep \/ s = kBlank THEN T(s, DirS, if_le)
                        ELSE T(s, DirR, to_a)]
           b_rule == [s \in Symbols |->
                        IF s = kOne THEN T(kMarked, DirL, back)
                        ELSE IF s = kBlank THEN T(s, DirS, if_gt)
                        ELSE T(s, DirR, find_b)]
       IN Result(WithTM(nav.hc,
                        Emit(nav.hc.tm, <<Loop(to_a, a_rule),
                                          Loop(find_b, b_rule),
                                          Loop(back, BackTo(back, entry))>>)),
                 if_le))

CompileAssign(hc, stmt, entry) ==
  IF /\ stmt.value.kind = "BinExpr"
     /\ stmt.value.op = "Add"
     /\ stmt.value.left.kind = "Var"
     /\ stmt.value.left.name = stmt.name
     /\ stmt.value.right.kind = "Var"
    THEN LET hc1 == GetVar(GetVar(hc, stmt.value.right.name), stmt.name)
         IN EmitCopyRegion(hc1, entry, VarIndex(hc1, stmt.value.right.name),
                           VarIndex(hc1, stmt.name))
    ELSE Result(Throw(hc, "Unsupported assignment"), entry)

\* The join of CompileIf (lines 375-382) and CompileIfEq (1273-1280).
RECURSIVE JoinFrom(_, _, _, _, _)
JoinFrom(tm, then_done, else_done, end_st, i) ==
  IF i > Len(AsciiOrder) THEN tm
  ELSE LET s == AsciiOrder[i]
       IN IF s \in tm.tape_alphabet
            THEN LET t1 == TouchDelta(tm, then_done)
                     t2 == IF s \notin DOMAIN t1.delta[then_done]
                             THEN AddTransition(t1, then_done, s, s, DirS, end_st)
                             ELSE t1
                     t3 == TouchDelta(t2, else_done)
                     t4 == IF s \notin DOMAIN t3.delta[else_done]
                             THEN AddTransition(t3, else_done, s, s, DirS, end_st)
                             ELSE t3
                 IN JoinFrom(t4, then_done, else_done, end_st, i + 1)
            ELSE JoinFrom(tm, then_done, else_done, end_st, i + 1)

\* `if (!branches.count(s) && delta[entry].find(s) == end) AddTransition(entry, s, s, S, to)`
RECURSIVE AddUnhandledFrom(_, _, _, _, _)
AddUnhandledFrom(tm, entry, to, handled, i) ==
  IF i > Len(AsciiOrder) THEN tm
  ELSE LET s == AsciiOrder[i]
       IN IF s \in tm.tape_alphabet /\ s \notin handled
            THEN LET t == TouchDelta(tm, entry)
                 IN IF s \notin DOMAIN t.delta[entry]
                      THEN AddUnhandledFrom(AddTransition(t, entry, s, s, DirS, to),
                                            entry, to, handled, i + 1)
                      ELSE AddUnhandledFrom(t, entry, to, handled, i + 1)
            ELSE AddUnhandledFrom(tm, entry, to, handled, i + 1)

\* Statements and expressions are records with a kind field, as ParseHL builds
\* the classes of ir.hpp.
AcceptStmt == [kind |-> "Accept"]
RejectStmt == [kind |-> "Reject"]

RECURSIVE CompileStmts(_, _, _), CompileStmt(_, _, _), CompileIf(_, _, _),
          CompileFor(_, _, _), CompileLoop(_, _, _), CompileIfCurrent(_, _, _),
          CompileIfEq(_, _, _), CompileBranches(_, _, _, _, _)

\* CompileStmts, followed from statement i on.
RECURSIVE CompileStmtsFrom(_, _, _, _)
CompileStmtsFrom(hc, stmts, current, i) ==
  IF i > Len(stmts) THEN Result(hc, current)
  ELSE Then(CompileStmt(hc, stmts[i], current), LAMBDA r :
         CompileStmtsFrom(r.hc, stmts, r.exit, i + 1))

CompileStmts(hc, stmts, entry) == CompileStmtsFrom(hc, stmts, entry, 1)

\* lines 370-384 of CompileIf and 1268-1282 of CompileIfEq
CompileThenElse(hc, stmt, then_st, else_st, end_st) ==
  Then(CompileStmts(hc, stmt.then_body, then_st), LAMBDA then_done :
  Then(IF stmt.else_body = <<>> THEN Result(then_done.hc, else_st)
       ELSE CompileStmts(then_done.hc, stmt.else_body, else_st),
       LAMBDA else_done :
    EmitRewindToStart(
      WithTM(else_done.hc,
             JoinFrom(else_done.hc.tm, then_done.exit, else_done.exit, end_st, 1)),
      end_st)))

\* A verify pass that does not look for unmatched 1s.
VerifyLoopIgnoringExtra(verify, then_st, else_st) ==
  [s \in Symbols |->
     IF s = kBlank THEN T(s, DirS, then_st) ELSE T(s, DirR, verify)]

\* CompileIf, lines 349-362: verify the variable has no unmarked 1s.
VerifyLoop(verify, then_st, else_st) ==
  [s \in Symbols |->
     IF s = kOne THEN T(s, DirS, else_st)
     ELSE IF s = kBlank THEN T(s, DirS, then_st)
     ELSE T(s, DirR, verify)]

CompileIf(hc, stmt, entry) ==
  LET n == hc.state_counter
      then_st == StateName("then", n)
      else_st == StateName("else", n + 1)
      end_st == StateName("endif", n + 2)
      cmp == stmt.condition
  IN IF cmp.kind # "BinExpr" THEN
       Result(Throw(Bump(hc, 3), "If condition must be == comparison"), entry)
     ELSE IF cmp.op # "Eq" THEN
       Result(Throw(Bump(hc, 3), "If condition must be == comparison"), entry)
     ELSE IF ~(cmp.left.kind = "Count" /\ cmp.right.kind = "Var") THEN
       Result(Throw(Bump(hc, 3), "Unsupported if condition"), entry)
     ELSE
       LET sym == cmp.left.symbol
           marked_sym == MarkOf(sym)
           hc1 == GetVar(Bump(hc, 3), cmp.right.name)
           go_start == StateName("match_rewind", n + 3)
           match_loop == StateName("match", n + 4)
           find_var == StateName("find_var", n + 5)
           back == StateName("back", n + 6)
           verify == StateName("verify", n + 7)
           match_rule == [s \in Symbols |->
                            IF s = sym THEN T(marked_sym, DirR, find_var)
                            ELSE IF s = marked_sym THEN T(s, DirR, match_loop)
                            ELSE IF s = kSep \/ s = kBlank THEN T(s, DirR, verify)
                            ELSE T(s, DirR, match_loop)]
           find_rule == [s \in Symbols |->
                           IF s = kOne THEN T(kMarked, DirL, back)
                           ELSE IF s = kBlank THEN T(s, DirS, else_st)
                           ELSE T(s, DirR, find_var)]
           verify_rule == VerifyLoop(verify, then_st, else_st)
       IN CompileThenElse(
            WithTM(Bump(hc1, 5),
                   Emit(hc1.tm, <<Loop(go_start, BackTo(go_start, match_loop)),
                                  Loop(entry, StayTo(go_start)),
                                  Loop(match_loop, match_rule),
                                  Loop(find_var, find_rule),
                                  Loop(back, BackTo(back, match_loop)),
                                  Loop(verify, verify_rule)>>)),
            stmt, then_st, else_st, end_st)

CompileReturn(hc, stmt, entry) ==
  CompileIf(hc, [kind |-> "If", condition |-> stmt.value,
                 then_body |-> <<AcceptStmt>>, else_body |-> <<RejectStmt>>], entry)

\* An `if x == y` that enters its else branch on equality.
CompileIfEqSwapped(hc, stmt, entry) ==
  LET hc1 == GetVar(GetVar(hc, stmt.reg_a), stmt.reg_b)
      n == hc1.state_counter
      then_st == StateName("ifeq_then", n)
      else_st == StateName("ifeq_else", n + 1)
      end_st == StateName("ifeq_end", n + 2)
      cmp == EmitCompareEqual(Bump(hc1, 3), entry, VarIndex(hc1, stmt.reg_a),
                              VarIndex(hc1, stmt.reg_b), else_st, then_st)
  IN CompileThenElse(cmp.hc, stmt, then_st, else_st, end_st)

CompileIfEq(hc, stmt, entry) ==
  LET hc1 == GetVar(GetVar(hc, stmt.reg_a), stmt.reg_b)
      n == hc1.state_counter
      then_st == StateName("ifeq_then", n)
      else_st == StateName("ifeq_else", n + 1)
      end_st == StateName("ifeq_end", n + 2)
      cmp == EmitCompareEqual(Bump(hc1, 3), entry, VarIndex(hc1, stmt.reg_a),
                              VarIndex(hc1, stmt.reg_b), then_st, else_st)
  IN CompileThenElse(cmp.hc, stmt, then_st, else_st, end_st)

CompileLoop(hc, stmt, entry) ==
  LET loop_head == StateName("loop_head", hc.state_counter)
      loop_exit == StateName("loop_exit", hc.state_counter + 1)
      hc1 == [Bump(hc, 2) EXCEPT !.break_targets = Append(@, loop_exit)]
      hc2 == WithTM(hc1, AddLoop(hc1.tm, entry, StayTo(loop_head)))
      body_end == CompileStmts(hc2, stmt.body, loop_head)
      hc3 == body_end.hc
      hc4 == IF /\ body_end.exit # hc3.tm.accept
                /\ body_end.exit # hc3.tm.reject
                /\ body_end.exit # loop_exit
               THEN WithTM(hc3, AddMissing(hc3.tm, body_end.exit, loop_head))
               ELSE hc3
  IN \* an exception leaves before the pop
     IF hc3.thrown # "" THEN body_end
     ELSE Result([hc4 EXCEPT !.break_targets = SubSeq(@, 1, Len(@) - 1)], loop_exit)

\* CompileIfCurrent, lines 476-488: the branches from the i-th symbol on.
CompileBranches(hc, stmt, entry, end, i) ==
  IF i > Len(AsciiOrder) \/ hc.thrown # "" THEN hc
  ELSE LET sym == AsciiOrder[i]
       IN IF sym \notin DOMAIN stmt.branches
            THEN CompileBranches(hc, stmt, entry, end, i + 1)
            ELSE LET branch_head == StateName("branch", hc.state_counter)
                     hc1 == WithTM(Bump(hc, 1),
                              AddTransition(hc.tm, entry, sym, sym, DirS, branch_head))
                     branch_end == CompileStmts(hc1, stmt.branches[sym], branch_head)
                     hc2 == branch_end.hc
                     hc3 == IF /\ hc2.thrown = ""
                               /\ branch_end.exit # hc2.tm.accept
                               /\ branch_end.exit # hc2.tm.reject
                              THEN WithTM(hc2, AddMissing(hc2.tm, branch_end.exit, end))
                              ELSE hc2
                 IN CompileBranches(hc3, stmt, entry, end, i + 1)

CompileIfCurrent(hc, stmt, entry) ==
  LET end == StateName("if_cur_end", hc.state_counter)
      hc1 == CompileBranches(Bump(hc, 1), stmt, entry, end, 1)
      handled == DOMAIN stmt.branches
  IN IF hc1.thrown # "" THEN Result(hc1, entry)
     ELSE IF stmt.else_body # <<>> THEN
       LET else_head == StateName("else", hc1.state_counter)
           hc2 == WithTM(Bump(hc1, 1),
                         AddUnhandledFrom(hc1.tm, entry, else_head, handled, 1))
           else_end == CompileStmts(hc2, stmt.else_body, else_head)
           hc3 == else_end.hc
       IN IF hc3.thrown # "" THEN else_end
          ELSE IF else_end.exit # hc3.tm.accept /\ else_end.exit # hc3.tm.reject
            THEN Result(WithTM(hc3, AddMissing(hc3.tm, else_end.exit, end)), end)
            ELSE Result(hc3, end)
     ELSE Result(WithTM(hc1, AddUnhandledFrom(hc1.tm, entry, end, handled, 1)), end)

CompileFor(hc, stmt, entry) ==
  IF stmt.start.kind # "IntLit" THEN Result(Throw(hc, "For loop must start at 1"), entry)
  ELSE IF stmt.start.value # 1 THEN Result(Throw(hc, "For loop must start at 1"), entry)
  ELSE IF stmt.end.kind # "Var" THEN
    Result(Throw(hc, "For loop end must be a variable"), entry)
  ELSE
    LET hc1 == GetVar(GetVar(DeclareVar(hc, stmt.var), stmt.var), stmt.end.name)
        i_index == VarIndex(hc1, stmt.var)
        n_index == VarIndex(hc1, stmt.end.name)
        n == hc1.state_counter
        setup == StateName("for_setup", n)
        loop_head == StateName("for_head", n + 1)
        loop_body == StateName("for_body", n + 2)
        loop_end == StateName("for_end", n + 3)
        setup_rule == [s \in Symbols |->
                         IF s = kBlank THEN T(kSep, DirL, loop_head)
                         ELSE T(s, DirR, setup)]
    IN Then(EmitIncrementRegion(
              WithTM(Bump(hc1, 4),
                     Emit(hc1.tm, <<Loop(setup, setup_rule),
                                    Loop(entry, StayTo(setup))>>)),
              loop_head, i_index), LAMBDA incr :
       Then(EmitCompareRegionToRegion(incr.hc, incr.exit, i_index, n_index,
                                      loop_body, loop_end), LAMBDA after_cmp :
       Then(CompileStmts(after_cmp.hc, stmt.body, loop_body), LAMBDA body_done :
       Then(EmitRewindToStart(body_done.hc, body_done.exit), LAMBDA body_rewind :
         EmitRewindToStart(
           WithTM(body_rewind.hc,
                  AddLoop(body_rewind.hc.tm, body_rewind.exit, StayTo(loop_head))),
           loop_end)))))

CompileStmt(hc, stmt, entry) ==
  CASE stmt.kind = "Let" -> CompileLet(hc, stmt, entry)
    [] stmt.kind = "Assign" -> CompileAssign(hc, stmt, entry)
    [] stmt.kind = "For" -> CompileFor(hc, stmt, entry)
    [] stmt.kind = "If" -> CompileIf(hc, stmt, entry)
    [] stmt.kind = "Return" -> CompileReturn(hc, stmt, entry)
    [] stmt.kind = "Accept" -> CompileAccept(hc, entry)
    [] stmt.kind = "Reject" -> CompileReject(hc, entry)
    [] stmt.kind = "Scan" -> CompileScan(hc, stmt, entry)
    [] stmt.kind = "Write" -> CompileWrite(hc, stmt, entry)
    [] stmt.kind = "Move" -> CompileMove(hc, stmt, entry)
    [] stmt.kind = "Loop" -> CompileLoop(hc, stmt, entry)
    [] stmt.kind = "IfCurrent" -> CompileIfCurrent(hc, stmt, entry)
    [] stmt.kind = "Inc" -> CompileInc(hc, stmt, entry)
    [] stmt.kind = "Append" -> CompileAppend(hc, stmt, entry)
    [] stmt.kind = "Break" -> CompileBreak(hc, stmt, entry)
    [] stmt.kind = "Rewind" -> CompileRewind(hc, stmt, entry)
    [] stmt.kind = "IfEq" -> CompileIfEq(hc, stmt, entry)
    [] OTHER -> Result(Throw(hc, "Unknown statement type"), entry)

\* Compile, lines 67-81: the instance and the exit state after the body.
CompileBody(hc, program) ==
  LET hc0 == SetupAlphabet([hc EXCEPT !.tm = EmptyTM, !.vars = <<>>,
                                      !.next_var_index = 0, !.state_counter = 0,
                                      !.thrown = ""], program)
      start == StateName("start", 0)
      hc1 == WithTM(Bump(hc0, 1),
                    [hc0.tm EXCEPT !.start = start, !.accept = "qA", !.reject = "qR",
                                   !.states = @ \cup {"qA", "qR"}])
  IN Then(EmitPreamble(hc1, start), LAMBDA pre :
       CompileStmts(pre.hc, program.body, pre.exit))

\* Compile: the instance it leaves, whose tm is the machine returned (when
\* nothing was thrown), with the exit state of the body.
Compile(hc, program) ==
  Then(CompileBody(hc, program), LAMBDA body :
    Result(WithTM(body.hc,
                  Finalize(AddMissing(body.hc.tm, body.exit, body.hc.tm.accept))),
           body.exit))

CompileProgram(program) == Compile(NewHLCompiler, program).hc.tm

-----------------------------------------------------------------------------
(* The programs compiled, as ParseHL (parser.cpp) builds them *)

Count(symbol) == [kind |-> "Count", symbol |-> symbol]
Var(name) == [kind |-> "Var", name |-> name]
IntLit(value) == [kind |-> "IntLit", value |-> value]
Eq(left, right) == [kind |-> "BinExpr", op |-> "Eq", left |-> left, right |-> right]
LetStmt(name, init) == [kind |-> "Let", name |-> name, init |-> init]
ReturnStmt(value) == [kind |-> "Return", value |-> value]
IfStmt(condition, then_body, else_body) ==
  [kind |-> "If", condition |-> condition, then_body |-> then_body,
   else_body |-> else_body]
IfEqStmt(reg_a, reg_b, then_body, else_body) ==
  [kind |-> "IfEq", reg_a |-> reg_a, reg_b |-> reg_b, then_body |-> then_body,
   else_body |-> else_body]
IfCurrentStmt(branches, else_body) ==
  [kind |-> "IfCurrent", branches |-> branches, else_body |-> else_body]
ScanStmt(direction, stop_symbols) ==
  [kind |-> "Scan", direction |-> direction, stop_symbols |-> stop_symbols]
LoopStmt(body) == [kind |-> "Loop", body |-> body]
IncStmt(reg) == [kind |-> "Inc", reg |-> reg]
AppendStmt(src, dst) == [kind |-> "Append", src |-> src, dst |-> dst]
BreakStmt == [kind |-> "Break"]

Program(body) == [input_alphabet |-> {"a", "b"}, markers |-> {}, body |-> body]

\* test_hlcompiler.cpp, ExhaustiveCountAEqCountB
ProgCountAEqCountB ==
  Program(<<LetStmt("n", Count("a")), ReturnStmt(Eq(Count("b"), Var("n")))>>)

\* test_hlcompiler.cpp, CountRestoresInput
ProgCountRestoresInput ==
  Program(<<LetStmt("n", Count("a")), ReturnStmt(Eq(Count("a"), Var("n")))>>)

\* test_hlcompiler_debug.cpp, VMStructural.ExhaustiveAbStar
ProgAbStar ==
  Program(<<
    ScanStmt(DirR, {"b", kBlank}),
    IfCurrentStmt("b" :> <<ScanStmt(DirR, {"a", kBlank}),
                           IfCurrentStmt("a" :> <<RejectStmt>>, <<>>)>>, <<>>),
    AcceptStmt>>)

\* test_hlcompiler.cpp, ExhaustiveTriangular
ProgTriangular ==
  Program(<<
    ScanStmt(DirR, {"b", kBlank}),
    IfCurrentStmt("b" :> <<ScanStmt(DirR, {"a", kBlank}),
                           IfCurrentStmt("a" :> <<RejectStmt>>, <<>>)>>, <<>>),
    LetStmt("n", Count("a")),
    LetStmt("m", Count("b")),
    LetStmt("sum", IntLit(0)),
    LetStmt("i", IntLit(0)),
    LetStmt("z", IntLit(0)),
    IfEqStmt("n", "z", <<IfEqStmt("sum", "m", <<AcceptStmt>>, <<>>), RejectStmt>>, <<>>),
    LoopStmt(<<IncStmt("i"), AppendStmt("i", "sum"),
               IfEqStmt("i", "n", <<BreakStmt>>, <<>>)>>),
    IfEqStmt("sum", "m", <<AcceptStmt>>, <<>>),
    RejectStmt >>)

-----------------------------------------------------------------------------
(* The machines simulated.  A handle [kind, arg] names a machine; tm_ is a *)
(* reference, and Machine(tm_) is the machine it refers to.                *)

\* Hand-built machines in the style of tests/test_simulator.cpp: start q0,
\* accept qA, reject qR, and one optional entry of state q0 per read symbol
\* a, blank and wildcard, entered with AddTransition and closed by Finalize.
HandTM ==
  [EmptyTM EXCEPT !.start = "q0", !.accept = "qA", !.reject = "qR",
                  !.input_alphabet = {"a"}]

AddSlot(tm, read, slot) ==
  IF slot = NoSlot THEN tm
  ELSE AddTransition(tm, "q0", read, slot.write, slot.dir, slot.next)

MakeHandTM(slots) ==
  Finalize(AddSlot(AddSlot(AddSlot(HandTM, "a", slots.a),
                           kBlank, slots.blank),
                   kWildcard, slots.wild))

HandNext == {"q0", "qA", "qR"}
SlotsA == [write : {"a", kBlank, kWildcard}, dir : Dirs, next : HandNext]
            \cup {NoSlot}
SlotsBlank == [write : {"a", kBlank}, dir : Dirs, next : {"q0", "qA"}]
                \cup {NoSlot}
SlotsWild == {NoSlot,
              [write |-> kWildcard, dir |-> DirR, next |-> "q0"],
              [write |-> "a", dir |-> DirL, next |-> "qR"]}

HandMachines ==
  {[kind |-> "hand", arg |-> s] : s \in [a : SlotsA, blank : SlotsBlank, wild : SlotsWild]}

\* The machines the optimizer is run on: start q0 and two more states, each
\* with at most one entry for a and one for the blank, which moves right.
OptStates == <<"q0", "q1", "q2">>
OptNext == {"", "q1", "q2", "qA"}
OptTables == [DOMAIN OptStates -> [a : OptNext, blank : OptNext]]

AddOptEntry(tm, from, read, to) ==
  IF to = "" THEN tm ELSE AddTransition(tm, from, read, read, DirR, to)

RECURSIVE AddOptEntries(_, _, _)
AddOptEntries(tm, table, i) ==
  IF i > Len(OptStates) THEN tm
  ELSE AddOptEntries(AddOptEntry(AddOptEntry(tm, OptStates[i], "a", table[i].a),
                                 OptStates[i], kBlank, table[i].blank),
                     table, i + 1)

MakeOptTM(table) == Finalize(AddOptEntries(HandTM, table, 1))

\* Each machine after Optimize.
Optimized == [table \in OptTables |-> Optimize(MakeOptTM(table))]

OptimizedMachines == {[kind |-> "optimized", arg |-> table] : table \in OptTables}

\* test_triangular.cpp, MakeTriangularNaive: the AddTransition calls of lines
\* 78-108, whose entries line 115 clears and whose states stay registered.
NaiveCleared ==
  <<<<"find_a", "A", "A", DirR, "find_a">>,
    <<"find_a", "a", "A", DirL, "go_start">>,
    <<"find_a", "B", "B", DirR, "verify">>,
    <<"find_a", "b", "b", DirS, "qR">>,
    <<"find_a", kBlank, kBlank, DirS, "qA">>,
    <<"go_start", "A", "A", DirL, "go_start">>,
    <<"go_start", "B", "B", DirL, "go_start">>,
    <<"go_start", "a", "a", DirL, "go_start">>,
    <<"go_start", "b", "b", DirL, "go_start">>,
    <<"go_start", kBlank, kBlank, DirR, "mark_b_per_A">>,
    <<"mark_b_per_A", "A", "A", DirR, "find_b">>,
    <<"mark_b_per_A", "B", "B", DirR, "mark_b_per_A">>,
    <<"mark_b_per_A", "a", "a", DirR, "mark_b_per_A">>,
    <<"mark_b_per_A", "b", "b", DirR, "mark_b_per_A">>,
    <<"mark_b_per_A", kBlank, kBlank, DirL, "back_to_find_a">>,
    <<"find_b", "A", "A", DirR, "find_b">>,
    <<"find_b", "B", "B", DirR, "find_b">>,
    <<"find_b", "a", "a", DirR, "find_b">>,
    <<"find_b", "b", "B", DirL, "back_to_A">>,
    <<"find_b", kBlank, kBlank, DirS, "qR">>>>

\* MakeTriangularNaive, lines 118-164: the entries of the machine it returns.
NaiveEntries ==
  <<<<"find_a", "A", "A", DirR, "find_a">>,
    <<"find_a", "a", "A", DirL, "rewind">>,
    <<"find_a", "B", "B", DirR, "verify">>,
    <<"find_a", "b", "b", DirS, "qR">>,
    <<"find_a", kBlank, kBlank, DirS, "qA">>,
    <<"rewind", "A", "A", DirL, "rewind">>,
    <<"rewind", kBlank, kBlank, DirR, "mark_first_A">>,
    <<"mark_first_A", "A", "X", DirR, "find_unmarked_b">>,
    <<"find_unmarked_b", "A", "A", DirR, "find_unmarked_b">>,
    <<"find_unmarked_b", "B", "B", DirR, "find_unmarked_b">>,
    <<"find_unmarked_b", "a", "a", DirR, "find_unmarked_b">>,
    <<"find_unmarked_b", "b", "B", DirL, "back_to_X">>,
    <<"find_unmarked_b", kBlank, kBlank, DirS, "qR">>,
    <<"back_to_X", "A", "A", DirL, "back_to_X">>,
    <<"back_to_X", "B", "B", DirL, "back_to_X">>,
    <<"back_to_X", "a", "a", DirL, "back_to_X">>,
    <<"back_to_X", "X", "A", DirR, "next_A">>,
    <<"next_A", "A", "X", DirR, "find_unmarked_b">>,
    <<"next_A", "B", "B", DirR, "next_A">>,
    <<"next_A", "a", "a", DirL, "rewind_for_next">>,
    <<"next_A", "b", "b", DirL, "rewind_for_next">>,
    <<"next_A", kBlank, kBlank, DirL, "rewind_for_next">>,
    <<"rewind_for_next", "A", "A", DirL, "rewind_for_next">>,
    <<"rewind_for_next", "B", "B", DirL, "rewind_for_next">>,
    <<"rewind_for_next", "a", "a", DirL, "rewind_for_next">>,
    <<"rewind_for_next", "b", "b", DirL, "rewind_for_next">>,
    <<"rewind_for_next", kBlank, kBlank, DirR, "find_a">>,
    <<"verify", "B", "B", DirR, "verify">>,
    <<"verify", "b", "b", DirS, "qR">>,
    <<"verify", kBlank, kBlank, DirS, "qA">>>>

\* The AddTransition calls of a list, in order.
RECURSIVE AddTransitions(_, _)
AddTransitions(tm, entries) ==
  IF entries = <<>> THEN tm
  ELSE LET e == Head(entries)
       IN AddTransitions(AddTransition(tm, e[1], e[2], e[3], e[4], e[5]), Tail(entries))

MakeTriangularNaive ==
  LET declared == [EmptyTM EXCEPT !.start = "find_a", !.accept = "qA", !.reject = "qR",
                                  !.input_alphabet = {"a", "b"},
                                  !.tape_alphabet = {"A", "B", "X", "a", "b", kBlank}]
      cleared == [AddTransitions(declared, NaiveCleared) EXCEPT !.delta = <<>>]
  IN Finalize(AddTransitions(cleared, NaiveEntries))

TriangularNaive == [kind |-> "naive", arg |-> "TriangularNaive"]

\* A q1 that moves left on b without marking it.
AnBnEntriesKeepingB ==
  <<<<"q0", "a", "X", DirR, "q1">>,
    <<"q0", "Y", "Y", DirR, "q3">>,
    <<"q0", kBlank, kBlank, DirS, "qA">>,
    <<"q1", "a", "a", DirR, "q1">>,
    <<"q1", "Y", "Y", DirR, "q1">>,
    <<"q1", "b", "b", DirL, "q2">>,
    <<"q1", kBlank, kBlank, DirS, "qR">>,
    <<"q2", "a", "a", DirL, "q2">>,
    <<"q2", "Y", "Y", DirL, "q2">>,
    <<"q2", "X", "X", DirR, "q0">>,
    <<"q3", "Y", "Y", DirR, "q3">>,
    <<"q3", kBlank, kBlank, DirS, "qA">>,
    <<"q3", "b", "b", DirS, "qR">>>>

\* test_simulator.cpp, MakeAnBn: the AddTransition calls of lines 64-82.
AnBnEntries ==
  <<<<"q0", "a", "X", DirR, "q1">>,
    <<"q0", "Y", "Y", DirR, "q3">>,
    <<"q0", kBlank, kBlank, DirS, "qA">>,
    <<"q1", "a", "a", DirR, "q1">>,
    <<"q1", "Y", "Y", DirR, "q1">>,
    <<"q1", "b", "Y", DirL, "q2">>,
    <<"q1", kBlank, kBlank, DirS, "qR">>,
    <<"q2", "a", "a", DirL, "q2">>,
    <<"q2", "Y", "Y", DirL, "q2">>,
    <<"q2", "X", "X", DirR, "q0">>,
    <<"q3", "Y", "Y", DirR, "q3">>,
    <<"q3", kBlank, kBlank, DirS, "qA">>,
    <<"q3", "b", "b", DirS, "qR">>>>

MakeAnBn ==
  Finalize(AddTransitions([EmptyTM EXCEPT !.start = "q0", !.accept = "qA", !.reject = "qR",
                                          !.input_alphabet = {"a", "b"},
                                          !.tape_alphabet = {"X", "Y"}],
                          AnBnEntries))

AnBn == [kind |-> "anbn", arg |-> "AnBn"]

\* Programs whose statements run to their exits: a count, a copy of a
\* variable, a count-equals test, a register comparison and inc.
ProgCopyVar ==
  Program(<<LetStmt("n", Count("a")), LetStmt("m", Var("n"))>>)

ProgIfCount ==
  Program(<<LetStmt("n", Count("a")),
            IfStmt(Eq(Count("a"), Var("n")), <<IncStmt("n")>>, <<>>)>>)

ProgIfEq ==
  Program(<<LetStmt("n", Count("a")), LetStmt("m", Count("b")),
            IfEqStmt("n", "m", <<IncStmt("m")>>, <<>>)>>)

\* The machines CompileProgram returns for the programs above.
\* test_hlcompiler_debug.cpp, VMLoop.IncThenBreak, up to its loop:
\* `n = count(a); x = 0; loop { inc x; if x == n { break } }`.
CountUp == <<LetStmt("n", Count("a")), LetStmt("x", IntLit(0)),
             LoopStmt(<<IncStmt("x"), IfEqStmt("x", "n", <<BreakStmt>>, <<>>)>>)>>

\* The programs handed to CompileProgram.
Programs ==
  [CountAEqCountB |-> ProgCountAEqCountB,
   CountRestoresInput |-> ProgCountRestoresInput,
   Triangular |-> ProgTriangular,
   AbStar |-> ProgAbStar,
   CopyVar |-> ProgCopyVar,
   \* `n = count(a); n = count(b)`
   LetTwice |-> Program(<<LetStmt("n", Count("a")), LetStmt("n", Count("b"))>>),
   \* `alphabet input: [a, X]; n = count(X)`
   CountUpper |-> [Program(<<LetStmt("n", Count("X"))>>)
                     EXCEPT !.input_alphabet = {"a", "X"}],
   CopyIf |-> Program(<<LetStmt("n", Count("a")), LetStmt("m", Var("n")),
                          IfEqStmt("m", "n", <<AcceptStmt>>, <<>>), RejectStmt>>),
   IfCount |-> ProgIfCount,
   IfEq |-> ProgIfEq,
   \* VMLoop.IncThenBreak
   IncThenBreak |-> Program(CountUp \o <<AcceptStmt>>),
   \* the same loop as the last statement
   LoopLast |-> Program(CountUp),
   \* a program without statements
   Empty |-> Program(<<>>),
   \* the same loop followed by `if a { accept }` and `reject`
   BreakThenIfCurrent |->
     Program(CountUp \o <<IfCurrentStmt("a" :> <<AcceptStmt>>, <<>>), RejectStmt>>),
   \* `loop { if a { break } else { reject } } if b { accept } reject`
   BreakInIfCurrent |->
     Program(<<LoopStmt(<<IfCurrentStmt("a" :> <<BreakStmt>>, <<RejectStmt>>)>>),
               IfCurrentStmt("b" :> <<AcceptStmt>>, <<>>), RejectStmt>>),
   \* `accept`
   Accept |-> Program(<<AcceptStmt>>),
   \* `break`
   Break |-> Program(<<BreakStmt>>),
   \* `loop { break } accept`
   LoopBreak |-> Program(<<LoopStmt(<<BreakStmt>>), AcceptStmt>>),
   \* `loop { break } if a { break }`
   BreakAfterLoop |->
     Program(<<LoopStmt(<<BreakStmt>>), IfCurrentStmt("a" :> <<BreakStmt>>, <<>>)>>),
   \* `loop { if count(a) == 1 { accept } }`: an unsupported condition
   BadIfInLoop |->
     Program(<<LoopStmt(<<IfStmt(Eq(Count("a"), IntLit(1)), <<AcceptStmt>>, <<>>)>>)>>),
   \* `n = count(a); loop { if n == count(a) { accept } }`: the same
   BadIfAfterLet |->
     Program(<<LetStmt("n", Count("a")),
               LoopStmt(<<IfStmt(Eq(Var("n"), Count("a")), <<AcceptStmt>>, <<>>)>>)>>),
   \* `n = count(a); m = count(b); return n == m`
   ReturnEq |->
     Program(<<LetStmt("n", Count("a")), LetStmt("m", Count("b")),
               ReturnStmt(Eq(Var("n"), Var("m")))>>),
   \* `n = count(a); m = count(b); return count(a) == n`
   CountWithOther |->
     Program(<<LetStmt("n", Count("a")), LetStmt("m", Count("b")),
               ReturnStmt(Eq(Count("a"), Var("n")))>>),
   \* `n = count(a); m = count(b); if n == m { accept } else { reject }`
   EqCounts |->
     Program(<<LetStmt("n", Count("a")), LetStmt("m", Count("b")),
               IfEqStmt("n", "m", <<AcceptStmt>>, <<RejectStmt>>)>>),
   \* `x = 1; y = 0; if x == y { accept } else { reject }`
   EqLiterals |->
     Program(<<LetStmt("x", IntLit(1)), LetStmt("y", IntLit(0)),
               IfEqStmt("x", "y", <<AcceptStmt>>, <<RejectStmt>>)>>),
   \* `n = count(a); m = count(b); inc n`
   IncInterior |->
     Program(<<LetStmt("n", Count("a")), LetStmt("m", Count("b")), IncStmt("n")>>),
   \* `n = count(a); m = count(b); inc m`
   IncLast |->
     Program(<<LetStmt("n", Count("a")), LetStmt("m", Count("b")), IncStmt("m")>>),
   \* `n = count(a); x = 0; for i in 1..n { inc x }`
   ForInc |->
     Program(<<LetStmt("n", Count("a")), LetStmt("x", IntLit(0)),
               [kind |-> "For", var |-> "i", start |-> IntLit(1),
                end |-> Var("n"), body |-> <<IncStmt("x")>>]>>),
   \* `n = count(a); m = count(b); append n -> m`
   AppendCounts |->
     Program(<<LetStmt("n", Count("a")), LetStmt("m", Count("b")),
               AppendStmt("n", "m")>>),
   \* `x = 2; y = 0; append x -> y`
   AppendLiterals |->
     Program(<<LetStmt("x", IntLit(2)), LetStmt("y", IntLit(0)),
               AppendStmt("x", "y")>>)]

Compiled == [name \in DOMAIN Programs |-> CompileProgram(Programs[name])]

\* The state CompileStmt returns for the k-th top-level statement: the
\* `current` of Compile's CompileStmts after k statements.
TopLevelExit(program, k) ==
  CompileBody(NewHLCompiler, [program EXCEPT !.body = SubSeq(@, 1, k)]).exit

TopLevelExits(program) ==
  {TopLevelExit(program, k) : k \in 1..Len(program.body)}

StatementExits ==
  [CountRestoresInput |-> TopLevelExits(ProgCountRestoresInput),
   CopyVar |-> TopLevelExits(ProgCopyVar),
   IfCount |-> TopLevelExits(ProgIfCount),
   IfEq |-> TopLevelExits(ProgIfEq)]

\* The states a Compile of the first k top-level statements has entered
\* into tm_.states.
StatesAfter(program, k) ==
  CompileBody(NewHLCompiler, [program EXCEPT !.body = SubSeq(@, 1, k)]).hc.tm.states

\* CompileLoop on the k-th top-level statement: the loop_exit it returns and
\* the states it and the lowering of its body add, and the states entered so far.
LoopOf(program, k) ==
  LET loop_exit == TopLevelExit(program, k)
  IN [exit |-> loop_exit,
      body |-> (StatesAfter(program, k) \ StatesAfter(program, k - 1))
                 \ {loop_exit, "qA", "qR"},
      upto |-> StatesAfter(program, k)]

\* The top-level loop of each program that has one.
Loops ==
  [IncThenBreak |-> LoopOf(Programs.IncThenBreak, 3),
   BreakThenIfCurrent |-> LoopOf(Programs.BreakThenIfCurrent, 3),
   BreakInIfCurrent |-> LoopOf(Programs.BreakInIfCurrent, 1)]

-----------------------------------------------------------------------------
(* codegen.cpp: the legacy compiler of IR programs *)

\* The IR nodes (ir.hpp) the programs below are made of.
AcceptNode == [kind |-> "Accept"]
RejectNode == [kind |-> "Reject"]
WriteSymbolNode(symbol) == [kind |-> "WriteSymbol", symbol |-> symbol]
MoveNode(direction, count) ==
  [kind |-> "Move", direction |-> direction, count |-> count]

IRProgram(input_alphabet, tape_alphabet_extra, body) ==
  [input_alphabet |-> input_alphabet, tape_alphabet_extra |-> tape_alphabet_extra,
   body |-> body]

\* A Compiler is its machine tm_ and the counter of its StateGen gen_.
\* StateGen::Next(prefix) with the counter at n is StateName(prefix, n).
Generated(c, n) == [c EXCEPT !.counter_ = @ + n]
Registered(c, states) == [c EXCEPT !.tm.states = @ \cup states]
CompileResult(c, entry, exit) == [c |-> c, entry |-> entry, exit |-> exit]

\* `for (Symbol s : tm_.tape_alphabet) AddTransition(from, s, s, Dir::S, to);
\*  AddTransition(from, kBlank, kBlank, Dir::S, to)`
WireTo(tm, from, to) ==
  Emit(tm, <<Loop(from, StayTo(to)), One(from, kBlank, kBlank, DirS, to)>>)

\* CompileMove, lines 232-246: the chain behind `current` for steps i .. count-1.
RECURSIVE MoveChain(_, _, _, _, _)
MoveChain(c, move, entry, current, i) ==
  IF i >= move.count THEN CompileResult(c, entry, current)
  ELSE LET next == StateName(IF i = move.count - 1 THEN "moved" ELSE "mv", c.counter_)
           tm == Emit(Registered(c, {next}).tm,
                      <<Loop(current, MoveTo(move.direction, next)),
                        One(current, kBlank, kBlank, move.direction, next)>>)
       IN MoveChain([Generated(c, 1) EXCEPT !.tm = tm], move, entry, next, i + 1)

LegacyCompileMove(c, move) ==
  IF move.count <= 0
    THEN LET s == StateName("nop", c.counter_)
         IN CompileResult(Registered(Generated(c, 1), {s}), s, s)
    ELSE LET entry == StateName("mv", c.counter_)
         IN MoveChain(Registered(Generated(c, 1), {entry}), move, entry, entry, 0)

CompileWriteSymbol(c, write) ==
  LET entry == StateName("write", c.counter_)
      exit == StateName("wrote", c.counter_ + 1)
      tm == Emit(Registered(c, {entry, exit}).tm,
                 <<Loop(entry, [s \in Symbols |-> T(write.symbol, DirS, exit)]),
                   One(entry, kBlank, write.symbol, DirS, exit)>>)
  IN CompileResult([Generated(c, 2) EXCEPT !.tm = tm], entry, exit)

\* CompileNode on a node that halts: `to` is tm_.accept or tm_.reject.
CompileHalt(c, prefix, to) ==
  LET s == StateName(prefix, c.counter_)
  IN CompileResult([Generated(c, 1) EXCEPT !.tm = WireTo(Registered(c, {s}).tm, s, to)],
                   s, to)

CompileNode(c, node) ==
  IF node.kind = "WriteSymbol" THEN CompileWriteSymbol(c, node)
  ELSE IF node.kind = "Move" THEN LegacyCompileMove(c, node)
  ELSE IF node.kind = "Accept" THEN CompileHalt(c, "acc", c.tm.accept)
  ELSE IF node.kind = "Reject" THEN CompileHalt(c, "rej", c.tm.reject)
  ELSE LET s == StateName("err", c.counter_)
       IN CompileResult(Generated(c, 1), s, s)

\* CompileBlock, lines 383-393: the nodes i .. size-1 behind current_exit.
RECURSIVE BlockFrom(_, _, _, _, _)
BlockFrom(c, body, entry, current_exit, i) ==
  IF i > Len(body) THEN CompileResult(c, entry, current_exit)
  ELSE LET next == CompileNode(c, body[i])
       IN BlockFrom([next.c EXCEPT !.tm = WireTo(@, current_exit, next.entry)],
                    body, entry, next.exit, i + 1)

CompileBlock(c, body) ==
  IF body = <<>>
    THEN LET s == StateName("empty", c.counter_)
         IN CompileResult(Registered(Generated(c, 1), {s}), s, s)
    ELSE LET first == CompileNode(c, body[1])
         IN BlockFrom(first.c, body, first.entry, first.exit, 2)

\* Compile, lines 118-129: the machine before any node is compiled.
CompilerAtStart(program) ==
  [tm |-> [EmptyTM EXCEPT !.input_alphabet = program.input_alphabet,
                          !.tape_alphabet = program.tape_alphabet_extra,
                          !.start = StateName("start", 0),
                          !.accept = "qA", !.reject = "qR",
                          !.states = {"qA", "qR"}],
   counter_ |-> 1]

LegacyCompile(program) ==
  LET c == CompilerAtStart(program)
  IN IF program.body = <<>>
       THEN Finalize(WireTo(c.tm, c.tm.start, c.tm.accept))
       ELSE LET result == CompileBlock(c, program.body)
            IN Finalize(WireTo(result.c.tm, result.exit, result.c.tm.accept))

CompileIR(program) == LegacyCompile(program)

\* AcceptOnly: the one node Accept.  AcceptDeclared: the same with the input
\* symbols listed as tape symbols too.  Sequence: the program of
\* CodegenTest.CompileSequence.
IRPrograms ==
  [AcceptOnly |-> IRProgram({"a", "b"}, {}, <<AcceptNode>>),
   AcceptDeclared |-> IRProgram({"a", "b"}, {"a", "b"}, <<AcceptNode>>),
   Sequence |-> IRProgram({"a"}, {"A"},
                          <<WriteSymbolNode("A"), MoveNode(DirR, 1), AcceptNode>>)]

LegacyCompiled == [name \in DOMAIN IRPrograms |-> CompileIR(IRPrograms[name])]

\* The entry state CompileBlock returns to Compile: that of the first node.
FirstEntry ==
  [name \in DOMAIN IRPrograms |->
     CompileBlock(CompilerAtStart(IRPrograms[name]), IRPrograms[name].body).entry]

LegacyMachine(name) == [kind |-> "ir", arg |-> name]

Machine(h) ==
  IF h.kind = "hand" THEN MakeHandTM(h.arg)
  ELSE IF h.kind = "optimized" THEN Optimized[h.arg]
  ELSE IF h.kind = "naive" THEN MakeTriangularNaive
  ELSE IF h.kind = "anbn" THEN MakeAnBn
  ELSE IF h.kind = "ir" THEN LegacyCompiled[h.arg]
  ELSE Compiled[h.arg]

CompiledMachine(name) == [kind |-> "program", arg |-> name]

-----------------------------------------------------------------------------
(* Bounds *)

\* Longest input handed to a hand-built machine.
MaxInputLen == 3
\* Largest step budget a simulator of a hand-built machine is constructed
\* with; step-wise callers stop calling Step after MaxBudget + 1 transitions.
MaxBudget == 3

RECURSIVE StringsUpTo(_, _)
StringsUpTo(alphabet, n) ==
  IF n = 0 THEN {<<>>}
  ELSE LET shorter == StringsUpTo(alphabet, n - 1)
       IN shorter \cup {Append(w, c) : w \in {x \in shorter : Len(x) = n - 1},
                                       c \in alphabet}

HandInputs == StringsUpTo({"a"}, MaxInputLen)

\* Longest input handed to a compiled machine.
MaxProgLen == 8
ProgInputs == StringsUpTo({"a", "b"}, MaxProgLen)

\* Longest input handed to the programs of SpecStatements.
MaxStmtLen == 3
StmtInputs == StringsUpTo({"a", "b"}, MaxStmtLen)

\* simulator.hpp: `int max_steps = 1000000`
kDefaultMaxSteps == 1000000
\* test_hlcompiler.cpp, ExhaustiveTriangular: `Simulator sim(tm, 10000000)`
kTriangularMaxSteps == 10000000

-----------------------------------------------------------------------------
(* The simulator's operations *)

Cfg == [tape |-> tape_, head |-> head_, state |-> state_,
        steps |-> steps_, halted |-> halted_]

SetCfg(c) ==
  /\ tape_' = c.tape
  /\ head_' = c.head
  /\ state_' = c.state
  /\ steps_' = c.steps
  /\ halted_' = c.halted

\* Simulator::Simulator: a fresh simulator of machine h with budget m.
Construct(h, m) ==
  /\ tm_ = h
  /\ max_steps_ = m
  /\ tape_ = <<>>
  /\ head_ = 0
  /\ state_ = ""
  /\ steps_ = 0
  /\ halted_ = FALSE
  /\ pc = "idle"
  /\ input = <<>>
  /\ op = "ctor"
  /\ ret = NoValue
  /\ applied = 0
  /\ reused = FALSE
  /\ compiler = NewHLCompiler
  /\ source = ""
  /\ machine = EmptyTM
  /\ call = NoValue
  /\ adds = 0

\* Simulator::Reset(w), called by the user.
Reset(w) ==
  /\ pc = "idle"
  /\ SetCfg(ResetCfg(Machine(tm_), w))
  /\ input' = w
  /\ op' = "Reset"
  /\ ret' = NoValue
  /\ applied' = 0
  /\ reused' = (op # "ctor")
  /\ UNCHANGED <<tm_, max_steps_, pc, compiler, source, object>>

\* Simulator::Step, called by the user.
Step ==
  /\ pc = "idle"
  /\ steps_ <= MaxBudget
  /\ SetCfg(StepCfg(Machine(tm_), Cfg))
  /\ op' = "Step"
  /\ ret' = StepReturn(Machine(tm_), Cfg)
  /\ applied' = IF Applies(Machine(tm_), Cfg) THEN applied + 1 ELSE applied
  /\ UNCHANGED <<tm_, max_steps_, pc, input, reused, compiler, source, object>>

\* Simulator::Run(w), line 10: Reset, then enter the loop.
RunCall(w) ==
  /\ pc = "idle"
  /\ SetCfg(ResetCfg(Machine(tm_), w))
  /\ input' = w
  /\ op' = "Run"
  /\ ret' = NoValue
  /\ applied' = 0
  /\ reused' = (op # "ctor")
  /\ pc' = "Run"
  /\ UNCHANGED <<tm_, max_steps_, compiler, source, object>>

\* Run, line 12: the loop's condition.
RunContinues == ~halted_ /\ steps_ < max_steps_

\* Run, lines 12-14: one iteration of the loop.
RunLoop ==
  /\ pc = "Run"
  /\ RunContinues
  /\ SetCfg(StepCfg(Machine(tm_), Cfg))
  /\ applied' = IF Applies(Machine(tm_), Cfg) THEN applied + 1 ELSE applied
  /\ UNCHANGED <<tm_, max_steps_, pc, input, op, ret, reused, compiler, source, object>>

\* Run, lines 16-29: the loop is left, the result is returned.
RunReturn ==
  /\ pc = "Run"
  /\ ~RunContinues
  /\ ret' = RunResultOf(Machine(tm_), Cfg, max_steps_)
  /\ pc' = "idle"
  /\ UNCHANGED <<tm_, max_steps_, tape_, head_, state_, steps_, halted_,
                 input, op, applied, reused, compiler, source, object>>

-----------------------------------------------------------------------------
(* SpecSim: any caller of a simulator of a hand-built machine *)

InitSim == \E h \in HandMachines, m \in 0..MaxBudget : Construct(h, m)

NextSim ==
  \/ \E w \in HandInputs : Reset(w)
  \/ Step
  \/ \E w \in HandInputs : RunCall(w)
  \/ RunLoop
  \/ RunReturn

SpecSim == InitSim /\ [][NextSim]_vars

-----------------------------------------------------------------------------
(* Compiled machines run on every input, as the exhaustive tests do *)

\* test_hlcompiler.cpp, AllStrings: the position of w in the vector it
\* returns (shorter strings first, a before b within a length).
RECURSIVE ValueOf(_)
ValueOf(w) ==
  IF w = <<>> THEN 0
  ELSE 2 * ValueOf(SubSeq(w, 1, Len(w) - 1)) + (IF w[Len(w)] = "b" THEN 1 ELSE 0)

IndexOf(w) == 2 ^ Len(w) - 1 + ValueOf(w)

\* `for (const auto& input : inputs) sim.Run(input)`: w is the input the loop
\* of the test runs next on its one simulator.
IsNextInput(w) ==
  IF op = "ctor" THEN w = <<>> ELSE IndexOf(w) = IndexOf(input) + 1

\* The test's loop calls Run on its next input.
RunNextInput(inputs) ==
  /\ pc = "idle"
  /\ \E w \in inputs : IsNextInput(w) /\ RunCall(w)

NextRun ==
  \/ RunNextInput(ProgInputs)
  \/ RunLoop
  \/ RunReturn

InitCountAEqCountB == Construct(CompiledMachine("CountAEqCountB"), kDefaultMaxSteps)
SpecCountAEqCountB == InitCountAEqCountB /\ [][NextRun]_vars

InitCountRestoresInput ==
  Construct(CompiledMachine("CountRestoresInput"), kDefaultMaxSteps)
SpecCountRestoresInput == InitCountRestoresInput /\ [][NextRun]_vars

InitAbStar == Construct(CompiledMachine("AbStar"), kDefaultMaxSteps)
SpecAbStar == InitAbStar /\ [][NextRun]_vars

\* test_simulator.cpp, AnBnAccepts and AnBnRejects: one simulator of MakeAnBn,
\* run on every string of the bounded length.
InitAnBn == Construct(AnBn, kDefaultMaxSteps)
SpecAnBn == InitAnBn /\ [][NextRun]_vars

\* test_triangular.cpp, ExhaustiveSmall: one simulator of the hand-built
\* machine, run on every string of length <= 10.
MaxNaiveLen == 10

\* The string the test's queue yields after w: shorter strings first, a
\* before b within a length.
RECURSIVE Successor(_)
Successor(w) ==
  IF w = <<>> THEN <<"a">>
  ELSE IF w[Len(w)] = "a" THEN [w EXCEPT ![Len(w)] = "b"]
  ELSE Successor(SubSeq(w, 1, Len(w) - 1)) \o <<"a">>

\* `for (const std::string& s : inputs) sim.Run(s)`
RunNextNaive ==
  LET s == IF op = "ctor" THEN <<>> ELSE Successor(input)
  IN /\ Len(s) <= MaxNaiveLen
     /\ RunCall(s)

NextNaive ==
  \/ RunNextNaive
  \/ RunLoop
  \/ RunReturn

InitNaive == Construct(TriangularNaive, kDefaultMaxSteps)
SpecNaive == InitNaive /\ [][NextNaive]_vars

InitTriangular == Construct(CompiledMachine("Triangular"), kTriangularMaxSteps)
SpecTriangular == InitTriangular /\ [][NextRun]_vars

\* Any of the statement programs, compiled and run on any input.
InitStatements ==
  \E name \in {"CopyVar", "IfCount", "IfEq"} :
    Construct(CompiledMachine(name), kDefaultMaxSteps)

NextStatements ==
  \/ RunNextInput(StmtInputs)
  \/ RunLoop
  \/ RunReturn

SpecStatements == InitStatements /\ [][NextStatements]_vars

\* Programs over one, two or three variables, compiled and run on any input.
RegionPrograms ==
  {"CountWithOther", "EqCounts", "EqLiterals", "IncInterior", "IncLast",
   "AppendCounts", "AppendLiterals", "CopyVar", "IfCount", "IfEq"}

InitRegions ==
  \E name \in RegionPrograms : Construct(CompiledMachine(name), kDefaultMaxSteps)

SpecRegions == InitRegions /\ [][NextStatements]_vars

-----------------------------------------------------------------------------
(* SpecCompile: Compile called again and again on one HLCompiler *)

\* Most break targets that earlier calls have left on the stack when
\* Compile is called.
MaxStale == 4

\* compiler.Compile(program), returning compiler.tm or throwing.
CompileCall(name) ==
  /\ Len(compiler.break_targets) <= MaxStale
  /\ compiler' = Compile(compiler, Programs[name]).hc
  /\ source' = name
  /\ UNCHANGED <<tm_, max_steps_, tape_, head_, state_, steps_, halted_,
                 pc, input, op, ret, applied, reused, object>>

\* `HLCompiler compiler;`, and no simulator.
InitCompile ==
  /\ compiler = NewHLCompiler
  /\ source = ""
  /\ machine = EmptyTM
  /\ call = NoValue
  /\ adds = 0
  /\ tm_ = NoValue
  /\ max_steps_ = 0
  /\ tape_ = <<>>
  /\ head_ = 0
  /\ state_ = ""
  /\ steps_ = 0
  /\ halted_ = FALSE
  /\ pc = "idle"
  /\ input = <<>>
  /\ op = "ctor"
  /\ ret = NoValue
  /\ applied = 0
  /\ reused = FALSE

NextCompile ==
  \E name \in {"Accept", "Break", "LoopBreak", "BreakAfterLoop", "BadIfInLoop",
                "BadIfAfterLet", "IncThenBreak", "CountRestoresInput", "ReturnEq"} :
    CompileCall(name)

SpecCompile == InitCompile /\ [][NextCompile]_vars

\* Step budget of the simulators that run programs with loops.
MaxRunSteps == 1200

\* A program with a loop, or with no statement at all, compiled and run on any input.
\* The programs with `m = n`, compiled and run on any input.
InitCopy ==
  \E name \in {"CopyVar", "CopyIf"} : Construct(CompiledMachine(name), kDefaultMaxSteps)
SpecCopy == InitCopy /\ [][NextStatements]_vars

\* Two `name = expr` statements, on two names and on one.
InitLets ==
  \E name \in {"IncLast", "LetTwice"} : Construct(CompiledMachine(name), kDefaultMaxSteps)
SpecLets == InitLets /\ [][NextStatements]_vars

\* `n = count(X)` over {a, X}, compiled and run on any input.
UpperInputs == StringsUpTo({"a", "X"}, MaxStmtLen)

InitCountUpper == Construct(CompiledMachine("CountUpper"), MaxRunSteps)

NextCountUpper ==
  \/ \E w \in UpperInputs : RunCall(w)
  \/ RunLoop
  \/ RunReturn

SpecCountUpper == InitCountUpper /\ [][NextCountUpper]_vars

\* The machines CompileIR gives, each run on every input in turn.
InitLegacy == \E name \in DOMAIN IRPrograms : Construct(LegacyMachine(name), MaxRunSteps)
SpecLegacy == InitLegacy /\ [][NextStatements]_vars

\* Run's loop is taken as long as it is enabled: Run does nothing else.
FairRegions == InitRegions /\ [][NextStatements]_vars /\ WF_vars(RunLoop)

InitBreak ==
  \E name \in {"IncThenBreak", "BreakThenIfCurrent", "BreakInIfCurrent", "ForInc",
                "LoopLast", "Empty"} :
    Construct(CompiledMachine(name), MaxRunSteps)

SpecBreak == InitBreak /\ [][NextStatements]_vars

\* Simulator::Run is one call: once entered, its while loop (lines 12-14)
\* iterates while its condition holds and then the call returns.
InitCountUp == Construct(CompiledMachine("IncThenBreak"), MaxRunSteps)
FairCountUp ==
  InitCountUp /\ [][NextStatements]_vars /\ WF_vars(RunLoop) /\ WF_vars(RunReturn)

-----------------------------------------------------------------------------
(* SpecTM: any caller of a TM object *)

\* Most AddTransition calls made on the object.
MaxAdds == 3

\* tm.AddTransition(from, read, write, dir, to)
AddTransitionCall(from, read, write, dir, to) ==
  /\ adds < MaxAdds
  /\ machine' = AddTransition(machine, from, read, write, dir, to)
  /\ call' = [name |-> "AddTransition", args |-> <<from, read, write, dir, to>>,
              ret |-> NoValue]
  /\ adds' = adds + 1
  /\ UNCHANGED <<tm_, max_steps_, tape_, head_, state_, steps_, halted_,
                 pc, input, op, ret, applied, reused, compiler, source>>

\* tm.Finalize()
FinalizeCall ==
  /\ machine' = Finalize(machine)
  /\ call' = [name |-> "Finalize", args |-> <<>>, ret |-> NoValue]
  /\ UNCHANGED <<tm_, max_steps_, tape_, head_, state_, steps_, halted_,
                 pc, input, op, ret, applied, reused, compiler, source, adds>>

\* tm.Validate(&error), error being an empty string before the call
ValidateCall ==
  /\ call' = [name |-> "Validate", args |-> <<>>, ret |-> Validate(machine)]
  /\ UNCHANGED <<tm_, max_steps_, tape_, head_, state_, steps_, halted_,
                 pc, input, op, ret, applied, reused, compiler, source,
                 machine, adds>>

\* test_ir.cpp: `TM tm; tm.start = "q0"; tm.accept = "qA"; tm.reject = "qR";
\* tm.input_alphabet = {...}`, and neither a simulator nor a compiler.
InitTM ==
  /\ \E sigma \in {{"a"}, {"a", "b"}} :
       machine = [EmptyTM EXCEPT !.start = "q0", !.accept = "qA", !.reject = "qR",
                                 !.input_alphabet = sigma]
  /\ call = NoValue
  /\ adds = 0
  /\ compiler = NewHLCompiler
  /\ source = ""
  /\ tm_ = NoValue
  /\ max_steps_ = 0
  /\ tape_ = <<>>
  /\ head_ = 0
  /\ state_ = ""
  /\ steps_ = 0
  /\ halted_ = FALSE
  /\ pc = "idle"
  /\ input = <<>>
  /\ op = "ctor"
  /\ ret = NoValue
  /\ applied = 0
  /\ reused = FALSE

NextTM ==
  \/ \E from \in {"q0", "qA"}, read \in {"a", kWildcard}, write \in {"a", "X"},
        dir \in {DirL, DirR}, to \in {"q1", "qA"} :
       AddTransitionCall(from, read, write, dir, to)
  \/ FinalizeCall
  \/ ValidateCall

SpecTM == InitTM /\ [][NextTM]_vars

-----------------------------------------------------------------------------
(* Properties of the compiled machines *)

\* Number of occurrences of symbol c in the string w.
NumOf(w, c) == Cardinality({i \in DOMAIN w : w[i] = c})

\* w = a^n b^(n(n+1)/2), as IsTriangular of test_hlcompiler.cpp decides it.
IsTriangular(w) ==
  LET n == NumOf(w, "a")
  IN /\ \A i \in 1..n : w[i] = "a"
     /\ NumOf(w, "b") = (n * (n + 1)) \div 2

\* Run has returned: ret holds the RunResult of Run(input).
RunReturned == pc = "idle" /\ op = "Run"

\* The symbols a statement may leave behind: I and the upper-case input symbols.
Marks == {kMarked} \cup {ToUpper(s) : s \in {"a", "b"}}

\* The cells that held the input when the preamble was done: 1 .. Len(input).
InputCells == SubSeq(tape_, 2, Len(input) + 1)

\* C1: the machine compiled from `n = count(a); return count(b) == n` halts
\* on every string over {a,b} of the bounded length (every Run returns halted,
\* without hitting the step limit) and accepts it if and only if it holds as
\* many a's as b's, in any order.
C1_AcceptsIffEqualCounts ==
  RunReturned =>
    /\ halted_
    /\ ~ret.hit_limit
    /\ ret.accepted <=> (NumOf(input, "a") = NumOf(input, "b"))

\* A run that accepted a string of at least four symbols that starts with b.
C1_Witness ==
  /\ RunReturned
  /\ ret.accepted
  /\ Len(input) >= 4
  /\ input[1] = "b"

\* C2: the machine compiled from the triangular program halts on every string
\* over {a,b} of the bounded length and accepts exactly the strings
\* a^n b^(n(n+1)/2).
C2_AcceptsExactlyTriangular ==
  RunReturned =>
    /\ halted_
    /\ ~ret.hit_limit
    /\ ret.accepted <=> IsTriangular(input)

\* A run that accepted aabbb, which takes two rounds of the loop.
C2_Witness ==
  /\ RunReturned
  /\ ret.accepted
  /\ input = <<"a", "a", "b", "b", "b">>

\* The exit state of `n = count(a)`, the first statement of the program.
ExitOfCount == TopLevelExit(ProgCountRestoresInput, 1)

\* C3: count is non-destructive: the machine compiled from
\* `n = count(a); return count(a) == n` accepts every string over {a,b} of the
\* bounded length, and when `n = count(a)` is done the input cells hold
\* exactly the original input again.
C3_CountRestoresInput ==
  /\ RunReturned => (halted_ /\ ~ret.hit_limit /\ ret.accepted)
  /\ (pc = "Run" /\ state_ = ExitOfCount) => InputCells = input

\* The count is done on an input with two a's around a b, none of them marked.
C3_Witness ==
  /\ pc = "Run"
  /\ state_ = ExitOfCount
  /\ NumOf(input, "a") >= 2
  /\ NumOf(input, "b") >= 1
  /\ input[1] = "a"

\* C4: in every configuration in which the machine is in the exit state of a
\* top-level statement, the tape holds no I and no upper-case input symbol.
C4_MarksRestoredAtExits ==
  (pc = "Run" /\ state_ \in StatementExits[tm_.arg]) =>
    \A i \in DOMAIN tape_ : tape_[i] \notin Marks

-----------------------------------------------------------------------------
(* Properties of the simulator *)

\* This step applies a table transition (in a Step call or in Run's loop).
TransitionTaken == applied' = applied + 1

\* The entry selected in the current configuration.
Selected == FindTransition(Machine(tm_), Cfg)

\* The head is on cell 0 of the left-bounded tape.
OnCellZero == ClampHead(head_) = 0

\* The symbol stored in the cell the head is on.
UnderHead ==
  IF ClampHead(head_) < Len(tape_) THEN tape_[ClampHead(head_) + 1] ELSE kBlank

\* C5: in every configuration reached by Reset and any number of Step calls,
\* as CurrentConfig shows it between calls, the head index is >= 0.
C5_HeadNeverNegative ==
  (pc = "idle" /\ op \in {"Reset", "Step"}) => head_ >= 0

\* C6: a Left transition taken with the head on cell 0 leaves the head on
\* cell 0; a step taken with the head on cell 0 looks up its transition with
\* the symbol stored in cell 0; and cell 0 changes only by the write of a
\* transition that was selected by reading cell 0.
C6_LeftFromCellZeroStays ==
  [][TransitionTaken =>
       /\ (OnCellZero /\ Selected.dir = DirL) => head_' = 0
       /\ OnCellZero => Current(Cfg) = tape_[1]
       /\ tape_'[1] # tape_[1] =>
            /\ OnCellZero
            /\ Selected = Lookup(Machine(tm_), state_, tape_[1])]_vars

\* C26: a step that applies a transition applies the exact entry of the
\* current state for the symbol under the head when there is one, also when
\* a wildcard entry exists; it applies the wildcard entry when there is no
\* exact entry; and a transition that writes the wildcard leaves the symbol
\* of the cell as it was.
C26_WildcardHandling ==
  [][TransitionTaken =>
       LET entries == Machine(tm_).delta[state_]
           cell == ClampHead(head_) + 1
       IN /\ UnderHead \in DOMAIN entries => Selected = entries[UnderHead]
          /\ (UnderHead \notin DOMAIN entries /\ kWildcard \in DOMAIN entries) =>
               Selected = entries[kWildcard]
          /\ Selected.write = kWildcard => tape_'[cell] = UnderHead]_vars

\* A Step call or an iteration of Run's loop executes Step.
StepExecutes ==
  \/ pc = "idle" /\ pc' = "idle" /\ op' = "Step"
  \/ pc = "Run" /\ pc' = "Run"

\* The current non-halting state has neither an entry for the symbol under
\* the head nor a wildcard entry.
NoEntryUnderHead ==
  /\ ~halted_
  /\ state_ # Machine(tm_).accept
  /\ state_ # Machine(tm_).reject
  /\ Lookup(Machine(tm_), state_, UnderHead) = NoTrans

\* C7: when the current non-halting state has neither an entry for the symbol
\* under the head nor a wildcard entry, Step halts the machine in the reject
\* state without writing, moving the head or incrementing the step count, and
\* a Run that ends in the reject state returns accepted = false with steps
\* equal to the number of transitions taken.
C7_ImplicitReject ==
  [][/\ (StepExecutes /\ NoEntryUnderHead) =>
          /\ halted_'
          /\ state_' = Machine(tm_).reject
          /\ tape_' = tape_
          /\ head_' = head_
          /\ steps_' = steps_
     /\ (pc = "Run" /\ pc' = "idle" /\ state_ = Machine(tm_).reject) =>
          /\ ~ret'.accepted
          /\ ret'.steps = applied]_vars

\* The computation from configuration c halts within k transitions: it
\* enters accept or reject, or meets a missing table entry.
RECURSIVE HaltsWithin(_, _, _)
HaltsWithin(tm, c, k) ==
  IF c.halted \/ c.state = tm.accept \/ c.state = tm.reject THEN TRUE
  ELSE IF FindTransition(tm, c) = NoTrans THEN TRUE
  ELSE IF k = 0 THEN FALSE
  ELSE HaltsWithin(tm, ApplyTransition(tm, c, FindTransition(tm, c)), k - 1)

\* C8: Run(w) returns hit_limit = true if and only if the computation on w
\* does not halt within max_steps transitions (halting includes the implicit
\* reject, and halting after exactly max_steps transitions).
C8_HitLimitIffNoHalt ==
  RunReturned =>
    (ret.hit_limit <=>
       ~HaltsWithin(Machine(tm_), ResetCfg(Machine(tm_), input), max_steps_))

\* The initial configuration of machine tm on input w.
InitialCfg(tm, w) ==
  [tape |-> IF w = <<>> THEN <<kBlank>> ELSE w,
   head |-> 0, state |-> tm.start, steps |-> 0, halted |-> FALSE]

\* A loop that runs while steps_ <= max_steps_.
RECURSIVE RunFromOneMore(_, _, _)
RunFromOneMore(tm, c, max_steps) ==
  IF ~c.halted /\ c.steps <= max_steps
    THEN RunFromOneMore(tm, StepCfg(tm, c), max_steps)
  ELSE c

\* Run's loop followed from configuration c.
RECURSIVE RunFrom(_, _, _)
RunFrom(tm, c, max_steps) ==
  IF ~c.halted /\ c.steps < max_steps THEN RunFrom(tm, StepCfg(tm, c), max_steps)
  ELSE c

\* What Run(w) returns on a fresh simulator of tm with budget max_steps.
FreshRun(tm, max_steps, w) ==
  RunResultOf(tm, RunFrom(tm, InitialCfg(tm, w), max_steps), max_steps)

\* C9: whatever was called on the simulator before, Reset(w) establishes the
\* initial configuration (tape = w, or one blank cell when w is empty; head
\* 0; start state; 0 steps; not halted), and Run(w) returns what it returns
\* on a fresh simulator of the same machine.
C9_RunHistoryIndependent ==
  /\ (pc = "idle" /\ op = "Reset") => Cfg = InitialCfg(Machine(tm_), input)
  /\ RunReturned => ret = FreshRun(Machine(tm_), max_steps_, input)

\* A Run that took at least two steps has returned on a simulator that had
\* been used before.
C9_Witness ==
  /\ RunReturned
  /\ reused
  /\ ret.steps >= 2

\* test_simulator.cpp style: scan right over the a's, accept on the blank.
ScanRightAccept ==
  [kind |-> "hand",
   arg |-> [a |-> T("a", DirR, "q0"), blank |-> T(kBlank, DirS, "qA"),
            wild |-> NoSlot]]

\* C10: the step count equals the number of table transitions applied since
\* the last Reset, the one entering accept or reject included; Run returns
\* that count; the machine that scans right over a^k and accepts on the
\* blank halts with k + 1 steps.
C10_StepsCountTransitions ==
  /\ steps_ = applied
  /\ RunReturned => ret.steps = applied
  /\ (tm_ = ScanRightAccept /\ halted_ /\ state_ = "qA") =>
       steps_ = Len(input) + 1

\* The scanning machine has accepted aa, in three steps.
C10_Witness ==
  /\ tm_ = ScanRightAccept
  /\ halted_
  /\ state_ = "qA"
  /\ input = <<"a", "a">>
  /\ steps_ = 3

-----------------------------------------------------------------------------
(* Properties of the lowered statements *)

\* The machine has left the top-level loop of its program: it is in the
\* loop's exit state or in a state of a later statement.
PastLoop ==
  /\ tm_.arg \in DOMAIN Loops
  /\ state_ = Loops[tm_.arg].exit \/ state_ \notin Loops[tm_.arg].upto

\* C11: once a break has taken the machine to the exit of its loop, control
\* is in the statements that follow the loop and no step enters a state of
\* the loop or of its body again, whatever statement follows the loop.
C11_BreakLeavesLoop ==
  [][(pc = "Run" /\ pc' = "Run" /\ PastLoop) => state_' \notin Loops[tm_.arg].body]_vars

\* hlcompiler.hpp, tape layout `[input]#[var1]#[var2]#...`: the cells of
\* region r (0 is the first variable), from its # to the next # or the end
\* of the tape.
SepCells(tape) == {i \in DOMAIN tape : tape[i] = kSep}

NthSep(tape, n) ==
  CHOOSE i \in SepCells(tape) : Cardinality({j \in SepCells(tape) : j < i}) = n - 1

RegionOf(tape, r) ==
  LET first == NthSep(tape, r + 1) + 1
      last == IF Cardinality(SepCells(tape)) > r + 1
                THEN NthSep(tape, r + 2) - 1 ELSE Len(tape)
  IN SubSeq(tape, first, last)

\* The value region r holds: its 1s, marked or not.
Ones(tape, r) == NumOf(RegionOf(tape, r), kOne) + NumOf(RegionOf(tape, r), kMarked)

\* C13: `return count(a) == n` (then: accept, else: reject) after
\* `n = count(a); m = count(b)` takes the then branch exactly when the input
\* holds as many a's as region n holds 1s, whatever region m holds.
C13_IfCountComparesItsRegion ==
  (RunReturned /\ tm_.arg = "CountWithOther") =>
    (ret.accepted <=> NumOf(input, "a") = Ones(tape_, 0))

\* C14: `if x == y { accept } else { reject }` enters its then branch iff
\* regions x and y hold the same number of 1s, for every input and for the
\* values two counts or two literals give x and y, and enters either branch
\* with the tape it started on: the input, and no I.
C14_IfEqDecidesEquality ==
  (RunReturned /\ tm_.arg \in {"EqCounts", "EqLiterals"}) =>
    /\ ret.accepted <=> (Ones(tape_, 0) = Ones(tape_, 1))
    /\ InputCells = input
    /\ \A i \in DOMAIN tape_ : tape_[i] # kMarked

\* C15: after `n = count(a); m = count(b)`, `inc n` (an interior region)
\* and `inc m` (the last region) add exactly one 1 to their region and leave
\* the other region, the input cells and the two separators as they were,
\* for every input.
C15_IncAddsOneToItsRegion ==
  (RunReturned /\ tm_.arg \in {"IncInterior", "IncLast"}) =>
    /\ Ones(tape_, 0) =
         NumOf(input, "a") + (IF tm_.arg = "IncInterior" THEN 1 ELSE 0)
    /\ Ones(tape_, 1) = NumOf(input, "b") + (IF tm_.arg = "IncLast" THEN 1 ELSE 0)
    /\ InputCells = input
    /\ Cardinality(SepCells(tape_)) = 2

\* C17: the machine of `n = count(a); x = 0; loop { inc x; if x == n { break } }
\* accept` halts in its accept state on every input with at least one a,
\* and it does so after count(a) iterations of the loop body: the body adds
\* one 1 to region x per iteration, and x holds count(a) ones at the halt.
C17_CountUpHalts ==
  LET counting == tm_.arg = "IncThenBreak" /\ NumOf(input, "a") >= 1
  IN /\ [](RunReturned /\ counting =>
             /\ ret.accepted /\ ~ret.hit_limit
             /\ Ones(tape_, 1) = NumOf(input, "a"))
     /\ (pc = "Run" /\ counting) ~>
          (halted_ /\ state_ = Machine(tm_).accept /\ counting)

\* A run that took the loop body more than once has returned.
C17_Witness ==
  /\ RunReturned /\ tm_.arg = "IncThenBreak"
  /\ NumOf(input, "a") = MaxStmtLen
  /\ ret.accepted /\ Ones(tape_, 1) = MaxStmtLen

\* C18: `for i in 1..n { body }` terminates for every input after running
\* its body |n| times: the machine of `n = count(a); x = 0; for i in 1..n
\* { inc x }` halts within the budget, and region x, which the body
\* increments once, then holds count(a) ones.
C18_ForRunsBodyNTimes ==
  (RunReturned /\ tm_.arg = "ForInc") =>
    /\ halted_ /\ ~ret.hit_limit
    /\ Ones(tape_, 1) = NumOf(input, "a")

\* `current` when Compile adds its default accept: the exit state of the
\* program's last top-level statement (of the preamble when there is none).
LastExit ==
  [name \in {"LoopLast", "Empty"} |-> CompileBody(NewHLCompiler, Programs[name]).exit]

\* C19: from the exit state of the program's last top-level statement the
\* machine accepts at the next step, whatever symbol is under the head; this
\* holds for a final loop left by break and for a program without statements.
C19_LastExitAccepts ==
  [][(/\ pc = "Run" /\ pc' = "Run"
      /\ tm_.arg \in DOMAIN LastExit
      /\ state_ = LastExit[tm_.arg])
     => state_' = Machine(tm_).accept]_vars

\* The exit states of the top-level statements of the programs of
\* SpecRegions: of `x = expr`, `inc x`, `append s -> d`, `if x == y` and
\* `if count(c) == v`.
RegionExits ==
  [name \in RegionPrograms |-> TopLevelExits(Programs[name]) \ {"qA", "qR"}]

\* C20: whenever a step takes the machine into the exit state of one of these
\* statements, the head is on cell 1, the first input cell, for every input
\* and for the empty one.
C20_ExitsOnCellOne ==
  [][(/\ pc = "Run" /\ pc' = "Run"
      /\ state_' \in RegionExits[tm_.arg])
     => head_' = 1]_vars

\* On the empty input the machine is in the exit state of `if n == m`: the
\* programs IfEq and EqCounts begin with the same two statements, so the
\* exit that only IfEq has is that of its if statement.
C20_Witness ==
  /\ pc = "Run" /\ tm_.arg = "IfEq" /\ input = <<>>
  /\ state_ \in RegionExits.IfEq \ RegionExits.EqCounts
  /\ head_ = 1

\* C16: `append s -> d` on two variables halts with region d longer by the
\* number of 1s of region s, region s as it was with no I left, and the
\* input unchanged: after `n = count(a); m = count(b); append n -> m` region
\* m holds #a + #b, and after `x = 2; y = 0; append x -> y` region y holds 2.
C16_AppendExtendsDestination ==
  (RunReturned /\ tm_.arg \in {"AppendCounts", "AppendLiterals"}) =>
    LET s == IF tm_.arg = "AppendCounts" THEN NumOf(input, "a") ELSE 2
        d == IF tm_.arg = "AppendCounts" THEN NumOf(input, "b") ELSE 0
    IN /\ halted_ /\ ~ret.hit_limit
       /\ Ones(tape_, 0) = s
       /\ Ones(tape_, 1) = d + s
       /\ InputCells = input
       /\ \A i \in DOMAIN tape_ : tape_[i] # kMarked

\* Some break in stmts is not enclosed in a loop of stmts.
RECURSIVE HasFreeBreak(_)
HasFreeBreak(stmts) ==
  \E i \in DOMAIN stmts :
    LET stmt == stmts[i]
    IN \/ stmt.kind = "Break"
       \/ stmt.kind \in {"If", "IfEq"} /\ HasFreeBreak(stmt.then_body)
       \/ stmt.kind \in {"If", "IfEq", "IfCurrent"} /\ HasFreeBreak(stmt.else_body)
       \/ stmt.kind = "IfCurrent" /\
            \E sym \in DOMAIN stmt.branches : HasFreeBreak(stmt.branches[sym])
       \/ stmt.kind = "For" /\ HasFreeBreak(stmt.body)

\* C12: in any sequence of Compile calls on one HLCompiler, a call whose
\* program holds a break outside every loop throws "break outside of loop"
\* (and returns no machine), whatever the earlier calls compiled and whether
\* they returned or threw.
C12_BreakOutsideLoopThrows ==
  (source # "" /\ HasFreeBreak(Programs[source].body)) =>
    compiler.thrown = "break outside of loop"

-----------------------------------------------------------------------------
(* SpecOpt: runs of the machines Optimize returns *)

InitOpt == \E h \in OptimizedMachines, m \in 0..MaxBudget : Construct(h, m)

NextOpt ==
  \/ \E w \in HandInputs : RunCall(w)
  \/ RunLoop
  \/ RunReturn

SpecOpt == InitOpt /\ [][NextOpt]_vars

-----------------------------------------------------------------------------
(* Properties of the machines *)

\* C27: `return n == m` on two declared variables compiles without error
\* (an equality is a lowering error only when its left-hand side is neither
\* a count nor a variable), and Compile returns the machine that decides
\* |n| = |m| as `if n == m { accept } else { reject }` does.
C27_ReturnEqCompiles ==
  source = "ReturnEq" =>
    /\ compiler.thrown = ""
    /\ compiler.tm.delta # <<>>

\* The entries of tm's table whose source state is q.
EntriesFrom(tm, q) == IF q \in DOMAIN tm.delta THEN DOMAIN tm.delta[q] ELSE {}

\* C21: in every machine Compile returns, the accept state and the reject
\* state are halting sinks: the table has no entry whose source is one of them.
C21_AcceptRejectAreSinks ==
  (source # "" /\ compiler.thrown = "") =>
    /\ EntriesFrom(compiler.tm, compiler.tm.accept) = {}
    /\ EntriesFrom(compiler.tm, compiler.tm.reject) = {}

\* The latest call on the object was Finalize, whatever was added before.
Finalized == call # NoValue /\ call.name = "Finalize"

\* The programs Compile returns a machine for, and what Validate returns for
\* each machine.
Returned ==
  {name \in DOMAIN Programs : Compile(NewHLCompiler, Programs[name]).hc.thrown = ""}

CompiledValidate == [name \in Returned |-> Validate(Compiled[name])]

\* C22: after any sequence of AddTransition calls followed by Finalize,
\* Validate returns true, and every machine Compile returns passes Validate.
C22_FinalizedMachineValidates ==
  /\ Finalized => Validate(machine).value
  /\ \A name \in Returned : CompiledValidate[name].value

\* AddTransition calls, one of them overwriting an entry, then Finalize.
C22_Witness ==
  /\ Finalized /\ adds = MaxAdds
  /\ Cardinality(DOMAIN machine.delta) = 1
  /\ Validate(machine).value
  /\ "Triangular" \in Returned

\* The invariants of a machine: the designated states are in the state set;
\* every entry's source and target are in the state set, its read symbol
\* (unless the wildcard) and its write symbol in the tape alphabet; accept
\* and reject have no entries; the tape alphabet holds the blank and every
\* input symbol.
MachineInvariants(tm) ==
  /\ {tm.start, tm.accept, tm.reject} \subseteq tm.states
  /\ \A state \in DOMAIN tm.delta :
       /\ state \in tm.states
       /\ \A sym \in DOMAIN tm.delta[state] :
            /\ sym \in tm.tape_alphabet \/ sym = kWildcard
            /\ tm.delta[state][sym].write \in tm.tape_alphabet
            /\ tm.delta[state][sym].next \in tm.states
  /\ EntriesFrom(tm, tm.accept) = {} /\ EntriesFrom(tm, tm.reject) = {}
  /\ kBlank \in tm.tape_alphabet
  /\ tm.input_alphabet \subseteq tm.tape_alphabet

\* C23: whenever an invariant of the machine is violated, Validate returns
\* false and sets a non-empty message.
C23_ValidateRejectsViolations ==
  (call # NoValue /\ call.name = "Validate" /\ ~MachineInvariants(machine)) =>
    (~call.ret.value /\ call.ret.error # "")

\* C24: a Finalize call only adds: afterwards the tape alphabet holds what
\* it held, the blank and every input symbol, the state set holds what it
\* held and start, accept and reject; the table, the input alphabet and the
\* designated states are as before; and a second Finalize would change
\* nothing.
C24_FinalizeOnlyAddsOnce ==
  [][(call' # NoValue /\ call'.name = "Finalize") =>
       /\ machine'.tape_alphabet =
            (machine.tape_alphabet \cup {kBlank}) \cup machine.input_alphabet
       /\ machine'.states =
            machine.states \cup {machine.start, machine.accept, machine.reject}
       /\ machine'.delta = machine.delta
       /\ machine'.input_alphabet = machine.input_alphabet
       /\ <<machine'.start, machine'.accept, machine'.reject>> =
            <<machine.start, machine.accept, machine.reject>>
       /\ Finalize(machine') = machine']_vars

\* Finalize was called on a machine with entries that write X.
C24_Witness ==
  /\ Finalized /\ adds >= 2
  /\ "X" \in machine.tape_alphabet
  /\ {"q0", "qA", "qR"} \subseteq machine.states
  /\ Finalize(machine) = machine

\* The entry of tm's table for (state, sym); NoTrans when it has none.
EntryOf(tm, state, sym) ==
  IF sym \in EntriesFrom(tm, state) THEN tm.delta[state][sym] ELSE NoTrans

\* C25: an AddTransition(from, read, write, dir, to) call leaves the pair
\* (from, read) with the one entry it was called with, whether or not the
\* pair had an entry, and every other pair with what it had; it adds from
\* and to to the state set and read and write to the tape alphabet, and
\* registers nothing else (accept and reject are not added).
C25_AddTransitionOverwrites ==
  [][(call' # NoValue /\ call'.name = "AddTransition") =>
       LET from == call'.args[1]
           read == call'.args[2]
           write == call'.args[3]
           dir == call'.args[4]
           to == call'.args[5]
       IN /\ EntryOf(machine', from, read) =
               [read |-> read, write |-> write, dir |-> dir, next |-> to]
          /\ \A state \in DOMAIN machine'.delta \cup DOMAIN machine.delta :
               \A sym \in Symbols :
                 <<state, sym>> # <<from, read>> =>
                   EntryOf(machine', state, sym) = EntryOf(machine, state, sym)
          /\ machine'.states = machine.states \cup {from, to}
          /\ machine'.tape_alphabet = machine.tape_alphabet \cup {read, write}
          /\ machine'.input_alphabet = machine.input_alphabet
          /\ <<machine'.start, machine'.accept, machine'.reject>> =
               <<machine.start, machine.accept, machine.reject>>]_vars

\* The latest AddTransition overwrote the entry of an earlier one, and the
\* reject state was never registered.
C25_Witness ==
  /\ call # NoValue /\ call.name = "AddTransition" /\ adds = 2
  /\ Cardinality(DOMAIN machine.delta) = 1
  /\ EntriesFrom(machine, call.args[1]) = {call.args[2]}
  /\ machine.delta[call.args[1]][call.args[2]].write = "X"
  /\ machine.reject \notin machine.states

\* What Run(input) returns on the machine the optimizer was given.
OriginalRun == FreshRun(MakeOptTM(tm_.arg), max_steps_, input)

\* C28: Optimize (EliminateDeadStates, MergeEquivalentStates, Finalize)
\* preserves behaviour: on every input a validated machine's optimized form
\* accepts iff the machine accepts, and halts within the budget iff the
\* machine does.
C28_OptimizePreservesBehaviour ==
  (RunReturned /\ tm_.kind = "optimized") =>
    /\ Validate(MakeOptTM(tm_.arg)).value
    /\ ret.accepted = OriginalRun.accepted
    /\ ret.hit_limit = OriginalRun.hit_limit

\* A run has accepted after two steps or more, the first of them into q2,
\* on a machine whose reachable states q1 and q2 Optimize merged into q1.
C28_Witness ==
  /\ RunReturned
  /\ tm_.kind = "optimized"
  /\ tm_.arg[2] = tm_.arg[3]
  /\ tm_.arg[2].a = "qA"
  /\ tm_.arg[1] = [a |-> "q2", blank |-> "q1"]
  /\ input # <<>>
  /\ Cardinality(MakeOptTM(tm_.arg).states \ Machine(tm_).states) = 1
  /\ ret.accepted
  /\ ret.steps >= 2

\* IsAbStar of the test: no a occurs after a b.
IsAbStar(w) == \A i, j \in DOMAIN w : (i < j /\ w[i] = "b") => w[j] = "b"

\* C29: the machine compiled from `scan right for [b, _]; if b { scan right
\* for [a, _]; if a { reject } }; accept` accepts exactly the strings over
\* {a,b} of the bounded length in which no a occurs after a b.
C29_AcceptsExactlyAbStar ==
  (RunReturned /\ tm_ = CompiledMachine("AbStar")) =>
    (ret.accepted <=> IsAbStar(input))

\* A run has halted and rejected aabba, whose last a the second scan finds.
C29_Witness ==
  /\ RunReturned
  /\ tm_ = CompiledMachine("AbStar")
  /\ input = <<"a", "a", "b", "b", "a">>
  /\ ~ret.accepted
  /\ ~ret.hit_limit

\* C30: the hand-built naive triangular machine, run on the simulator,
\* accepts exactly the strings a^n b^(n(n+1)/2) among the strings over {a,b}
\* of the bounded length (it accepts ab, aabbb and aaabbbbbb and rejects aabb
\* and ba).
C30_NaiveAcceptsExactlyTriangular ==
  (RunReturned /\ tm_ = TriangularNaive) =>
    (ret.accepted <=> IsTriangular(input))

\* w is a^n b^n for some n >= 0.
IsAnBn(w) ==
  /\ Len(w) % 2 = 0
  /\ \A i \in DOMAIN w : w[i] = (IF 2 * i <= Len(w) THEN "a" ELSE "b")

\* C31: the hand-built machine MakeAnBn, run on the simulator, halts on every
\* string over {a,b} of the bounded length and accepts exactly the strings
\* a^n b^n, n >= 0.
C31_AnBnAcceptsExactlyAnBn ==
  (RunReturned /\ tm_ = AnBn) =>
    /\ halted_
    /\ ~ret.hit_limit
    /\ ret.accepted <=> IsAnBn(input)

\* A run has accepted aaaabbbb, which takes four rounds of marking.
C31_Witness ==
  /\ RunReturned
  /\ tm_ = AnBn
  /\ input = <<"a", "a", "a", "a", "b", "b", "b", "b">>
  /\ ret.accepted
  /\ ret.steps > 16

\* The state EmitPreamble returns to Compile, for each program, and the
\* states it works in: start, the carry states and the rewind state.
PreambleExits ==
  [name \in RegionPrograms |->
     [exit |-> TopLevelExit(Programs[name], 0),
      inner |-> StatesAfter(Programs[name], 0)
                  \ {TopLevelExit(Programs[name], 0), "qA", "qR"}]]

PreambleExit == PreambleExits[tm_.arg].exit

InPreamble == pc = "Run" /\ state_ \in PreambleExits[tm_.arg].inner

\* C32: for every input w, the empty one included, when a compiled machine
\* enters the preamble's exit state the tape holds > at cell 0, w at cells
\* 1..|w| and only blanks beyond, and the head is on cell 1; the preamble
\* terminates: it takes at most 2|w| + 1 steps, Run does not return from
\* inside it, and every Run reaches the exit state.
C32_PreambleShiftsInput ==
  /\ [][(pc = "Run" /\ pc' = "Run" /\ state_' = PreambleExit /\ state_ # PreambleExit) =>
         /\ head_' = 1
         /\ Len(tape_') >= Len(input) + 1
         /\ SubSeq(tape_', 1, Len(input) + 1) = <<kLeftEnd>> \o input
         /\ \A i \in DOMAIN tape_' : i > Len(input) + 1 => tape_'[i] = kBlank]_vars
  /\ [](InPreamble => (~halted_ /\ steps_ <= 2 * Len(input)))
  /\ [][InPreamble => (pc' = "Run" /\ steps_' = steps_ + 1)]_vars
  /\ (pc = "Run" /\ steps_ = 0) ~> (pc = "Run" /\ state_ = PreambleExit)

\* The preamble has carried bab one cell to the right and has come back to
\* cell 1.
C32_Witness ==
  /\ pc = "Run"
  /\ state_ = PreambleExit
  /\ input = <<"b", "a", "b">>
  /\ tape_ = <<kLeftEnd, "b", "a", "b">>
  /\ head_ = 1
  /\ steps_ = 2 * Len(input) + 1

\* The exit state of `m = n`, the second statement of both programs.
ExitOfCopy == TopLevelExit(ProgCopyVar, 2)

\* C33: when the exit state of `m = n` is reached, the new region of m holds
\* |n| ones, and region n holds the 1s it held before with no I left, so that
\* a following `if m == n` takes its then branch.
C33_CopyKeepsSource ==
  /\ (pc = "Run" /\ tm_.arg = "CopyVar" /\ state_ = ExitOfCopy) =>
       /\ RegionOf(tape_, 1) = [i \in 1..NumOf(input, "a") |-> kOne]
       /\ RegionOf(tape_, 0) = [i \in 1..NumOf(input, "a") |-> kOne]
  /\ (RunReturned /\ tm_.arg = "CopyIf") => ret.accepted

\* The compiler and the entry state when Compile comes to the k-th top-level
\* statement of the program.
BeforeStatement(program, k) ==
  CompileBody(NewHLCompiler, [program EXCEPT !.body = SubSeq(@, 1, k - 1)])

\* EmitInsertInRegion, lines 874-897, for `inc x` as k-th statement: the
\* state the navigation ends in and the region it was emitted for.
NavOfInc(program, k) ==
  LET pre == BeforeStatement(program, k)
      region == VarIndex(pre.hc, program.body[k].reg)
      nav == StateName("ins_nav", pre.hc.state_counter)
  IN [state |-> NavChain(WithTM(Bump(pre.hc, 1),
                                AddLoop(pre.hc.tm, pre.exit, MoveTo(DirR, nav))),
                         nav, "ins_sep", 0, region).exit,
      region |-> region]

\* EmitCompareEqual, line 1054, for `if x == y` as k-th statement: the first
\* emitNavToRegion, to the region of x.
NavOfIfEq(program, k) ==
  LET pre == BeforeStatement(program, k)
      region == VarIndex(pre.hc, program.body[k].reg_a)
  IN [state |-> EmitNavToRegion(Bump(pre.hc, 6), pre.exit, region).exit,
      region |-> region]

NavEnds ==
  [IncInterior |-> NavOfInc(Programs.IncInterior, 3),
   IncLast |-> NavOfInc(Programs.IncLast, 3),
   EqCounts |-> NavOfIfEq(Programs.EqCounts, 3)]

\* C34: a navigation chain emitted for region k, started on cell 1, stops
\* with the head on the first cell of region k, the cell after the (k+1)-th #,
\* for every input, the empty one included.
C34_NavigationStopsOnRegion ==
  [][(/\ pc = "Run" /\ pc' = "Run"
      /\ tm_.arg \in DOMAIN NavEnds
      /\ state_' = NavEnds[tm_.arg].state
      /\ state_ # state_')
     => /\ Cardinality(SepCells(tape_')) > NavEnds[tm_.arg].region
        /\ head_' = NthSep(tape_', NavEnds[tm_.arg].region + 1)]_vars

\* The caller has called Reset(input) and then Step until the simulator was
\* halted or max_steps_ transitions were applied.
SteppedToEnd ==
  /\ pc = "idle"
  /\ op \in {"Reset", "Step"}
  /\ tape_ # <<>>            \* only a simulator never reset has no cell
  /\ steps_ <= max_steps_
  /\ halted_ \/ steps_ = max_steps_

\* C35: Run(w) returns the accepted flag and the step count of the
\* configuration reached by Reset(w) followed by Step calls repeated until the
\* simulator is halted or max_steps transitions have been applied.
C35_RunAgreesWithSteps ==
  SteppedToEnd =>
    LET result == FreshRun(Machine(tm_), max_steps_, input)
    IN /\ result.accepted = AcceptedCfg(Machine(tm_), Cfg)
       /\ result.steps = steps_

\* The last of two or more Step calls after a Reset has used up the budget
\* without halting the machine.
C35_Witness ==
  /\ SteppedToEnd
  /\ op = "Step"
  /\ ~halted_
  /\ steps_ >= 2
  /\ ret.value

\* C36: once the simulator is halted, every further Step call returns false
\* and leaves tape, head, state, step count and the Accepted() verdict
\* unchanged; Accepted() is true only if Halted() is true.
C36_HaltingIsStable ==
  /\ [](AcceptedCfg(Machine(tm_), Cfg) => halted_)
  /\ [][(pc = "idle" /\ op' = "Step" /\ halted_) =>
         /\ ret'.value = FALSE
         /\ UNCHANGED <<tape_, head_, state_, steps_, halted_>>
         /\ AcceptedCfg(Machine(tm_), Cfg)' = AcceptedCfg(Machine(tm_), Cfg)]_vars

\* The last call was a Step that returned false, on a simulator halted in the
\* accept state after two transitions.
C36_Witness ==
  /\ pc = "idle"
  /\ op = "Step"
  /\ halted_
  /\ state_ = "qA"
  /\ steps_ = 2
  /\ ret.value = FALSE

\* C37: `n = count(c)` terminates on every input over the input alphabet and
\* leaves in region n as many 1s as the input holds occurrences of c, also
\* for a symbol c of the input alphabet that is no lower-case letter (here X).
C37_CountOfAnySymbol ==
  (RunReturned /\ tm_.arg = "CountUpper") =>
    /\ halted_
    /\ ~ret.hit_limit
    /\ RegionOf(tape_, 0) = [i \in 1..NumOf(input, "X") |-> kOne]

\* CompileLet on the k-th top-level statement, `name = count(c)`: its exit
\* state, the variables declared once it is lowered, and the index of name.
LetOf(program, k) ==
  LET after == BeforeStatement(program, k + 1)
  IN [exit |-> after.exit,
      declared |-> Cardinality(DOMAIN after.hc.vars),
      index |-> VarIndex(after.hc, program.body[k].name),
      symbol |-> program.body[k].init.symbol]

LetExits ==
  [name \in {"IncLast", "LetTwice"} |-> [k \in 1..2 |-> LetOf(Programs[name], k)]]

\* C38: at the exit of every `name = expr` statement the tape holds as many
\* # as there are distinct declared variables, and the variable with index k
\* occupies the region after the (k+1)-th #, here with the count it was
\* given; also when one name is assigned by two statements.
C38_SeparatorsMatchVariables ==
  \A k \in 1..2 :
    (pc = "Run" /\ tm_.arg \in DOMAIN LetExits /\ state_ = LetExits[tm_.arg][k].exit) =>
      LET let == LetExits[tm_.arg][k]
      IN /\ Cardinality(SepCells(tape_)) = let.declared
         /\ RegionOf(tape_, let.index) = [i \in 1..NumOf(input, let.symbol) |-> kOne]

\* C39: the machine CompileIR gives for a non-empty IR program runs the
\* program's first node from its start state: the start state is the entry
\* state of the first compiled node or has a transition into it, and the
\* machine of the one-node program Accept accepts every input over {a, b}.
C39_StartRunsFirstNode ==
  (RunReturned /\ tm_.kind = "ir") =>
    LET tm == Machine(tm_)
        entry == FirstEntry[tm_.arg]
    IN /\ \/ tm.start = entry
          \/ /\ tm.start \in DOMAIN tm.delta
             /\ \E s \in DOMAIN tm.delta[tm.start] : tm.delta[tm.start][s].next = entry
       /\ tm_.arg = "AcceptOnly" => ret.accepted

====
